---------------------------- MODULE Spec2Model ----------------------------
(***************************************************************************)
(* A model of yacr, "yet another CSV reader (and writer)".                 *)
(*                                                                         *)
(*   Reader : reader.go.  Reader embeds a bufio.Scanner whose split        *)
(*            function is Reader.ScanField.  The Scanner reads the source  *)
(*            in chunks and calls ScanField on the unconsumed window       *)
(*            buf[start:end] until it yields a token or an error.          *)
(*   Writer : the Writer type, layered over a bufio.Writer and a sink.     *)
(*                                                                         *)
(* Bytes are their integer codes; a []byte is a sequence of codes.  Go     *)
(* indices are 0-based: At(data, i) is data[i] and Slice(data, lo, hi) is  *)
(* data[lo:hi].                                                            *)
(***************************************************************************)
EXTENDS Integers, Sequences, FiniteSets, TLC

VARIABLES
    \* ---- the source and the embedded bufio.Scanner
    input,      \* every byte the source will ever deliver
    start,      \* Scanner.start: bytes consumed so far
    end,        \* Scanner.end: bytes read from the source so far
    srcEOF,     \* Scanner.err = io.EOF: the source has reported end of stream
    token,      \* Scanner.token (Nil when none)
    scanErr,    \* Scanner.err when it is a ScanField error ("" for nil)
    errLine,    \* the line number carried by that error
    pc,         \* position in Scanner.Scan: "top", "read", "stopped"
                \* ("closed" while no Reader has been constructed)
    ret,        \* what the last Scan call returned: "none", "true", "false"
    call,       \* the last ScanField invocation: its arguments and results
    out,        \* the fields delivered so far: <<token, EndOfRecord, EmptyLine>>
    lines,      \* LineNumber() as it was after each of those fields
    \* ---- Reader
    sep, quoted, guess, eor, lineno, empty, Trim, Comment, Lazy,
    \* ---- Writer, its bufio.Writer and the sink
    wsep, wquoted, sor, werr, UseCRLF,
    b,          \* the bufio.Writer: [buf, err]
    sink,       \* the bytes the sink has received
    quota,      \* bytes the sink still accepts before it rejects (-1: no limit)
    rejected,   \* TRUE once the sink has rejected a write
    pool,       \* the fields the caller may write
    hist,       \* the Write and EndOfRecord calls made on the Writer, in order
    wcall,      \* the last Writer call: [op, field, n0, err0, sor0, ret], with the
                \* stream's length, w.err and w.sor as they were on entry
    \* ---- a ScanRecord call
    rec,        \* [at, n, i, seen, start0, eor0, count, err]: its position ("idle",
                \* "scan", "done"), len(values), the loop index, the number of
                \* fields delivered when its current Scan began, Scanner.start
                \* and Reader.eor as they were on entry, and what it returned
    \* ---- LineReader, its source and a ReadLine call
    lr,         \* the LineReader: [buf, r, w, max]
    rd,         \* the source: [bytes, pos, fails]
    rl,         \* the ReadLine call: [at, p, base, reads, sawEOF, afterFinal,
                \* overflowed, line, err]
    \* ---- the Scanner's buffer and the values a caller keeps
    al,         \* the Scanner with its buffer: [bytes, pos, fails, whole, buf, start,
                \* end, eof, at, fresh, tok]
    kept        \* [has, copy, alias, orig, stale]: the destinations a caller filled
                \* from one field, that field's bytes then, and whether Scan
                \* has run since

scannerVars == <<input, start, end, srcEOF, token, scanErr, errLine, pc, ret, call, out,
                 lines>>
readerVars  == <<sep, quoted, guess, eor, lineno, empty, Trim, Comment, Lazy>>
writerVars  == <<wsep, wquoted, sor, werr, UseCRLF, b, sink, quota,
                 rejected, pool, hist, wcall>>
recordVars  == <<rec>>
lineVars    == <<lr, rd, rl>>
aliasVars   == <<al, kept>>
vars == <<scannerVars, readerVars, writerVars, recordVars, lineVars, aliasVars>>

-----------------------------------------------------------------------------
(* Bytes *)
QUOTE == 34
LF    == 10
CR    == 13
COMMA == 44
SEMI  == 59
TAB   == 9
PIPE  == 124
COLON == 58
SPACE == 32
HASH  == 35
ByteA == 97

\* the absent token (a nil []byte); no byte is negative
Nil == <<-1>>

(* Bounds of the model *)
MaxLen == 4         \* longest enumerated Reader input
MaxFieldLen == 2    \* longest enumerated Writer field
MaxOps == 5         \* most Write and EndOfRecord calls in one run
BufSize == 3        \* capacity of the bufio.Writer (4096 in the library)
MaxQuotedLen == 5   \* longest enumerated tail of a Reader input that opens a quote
MaxQuota == 4       \* largest finite number of bytes a failing sink accepts
MaxOptLen == 3      \* longest enumerated input of a Reader with its options set

At(data, i) == data[i + 1]
Slice(data, lo, hi) == SubSeq(data, lo + 1, hi)

RECURSIVE SeqsOfLen(_, _)
SeqsOfLen(S, n) ==
    IF n = 0 THEN {<<>>}
    ELSE {<<x>> \o t : x \in S, t \in SeqsOfLen(S, n - 1)}

SeqsUpTo(S, n) == UNION {SeqsOfLen(S, k) : k \in 0..n}

-----------------------------------------------------------------------------
(* reader.go *)

IsSpace(c) == c \in {SPACE, TAB, LF, CR, 11, 12}

RECURSIVE TrimLeft(_)
TrimLeft(s) ==
    IF s # <<>> /\ IsSpace(Head(s)) THEN TrimLeft(Tail(s)) ELSE s

RECURSIVE TrimRight(_)
TrimRight(s) ==
    IF s # <<>> /\ IsSpace(s[Len(s)]) THEN TrimRight(SubSeq(s, 1, Len(s) - 1)) ELSE s

\* bytes.TrimSpace: nil when s holds no byte other than white space
TrimSpace(s) ==
    IF \A i \in 1..Len(s) : IsSpace(s[i]) THEN Nil ELSE TrimRight(TrimLeft(s))

\* (variant: the nil result of bytes.TrimSpace is passed on)
trim_passNil(s) == TrimSpace(s)

\* trim: bytes.TrimSpace, with its nil result replaced by the empty slice s[0:0]
trim(s) == IF TrimSpace(s) = Nil THEN Slice(s, 0, 0) ELSE TrimSpace(s)

\* unescapeQuotes' loop: b[j] = b[i]; a quote skips the byte after it when strict,
\* or when that byte is a quote too
RECURSIVE unescapeLoop(_, _, _, _)
unescapeLoop(bs, i, j, strict) ==
    IF i >= Len(bs) THEN bs
    ELSE LET b1 == [bs EXCEPT ![j + 1] = At(bs, i)]
             skip == At(b1, i) = QUOTE
                     /\ (strict \/ (i < Len(b1) - 1 /\ At(b1, i + 1) = QUOTE))
         IN unescapeLoop(b1, IF skip THEN i + 2 ELSE i + 1, j + 1, strict)

\* (variant: the slice is not shortened by the number of doubled quotes)
unescapeQuotes_noShrink(bs, count, strict) ==
    IF count = 0 THEN bs ELSE unescapeLoop(bs, 0, 0, strict)

unescapeQuotes(bs, count, strict) ==
    IF count = 0 THEN bs
    ELSE Slice(unescapeLoop(bs, 0, 0, strict), 0, Len(bs) - count)

\* guess: the candidate counted most often.  The counts are kept in a Go map and
\* the maximum is taken by ranging over it, so among candidates with the same
\* highest count any one may be returned; 0 when no candidate occurs.
Candidates == {COMMA, SEMI, TAB, PIPE, COLON}

Count(data, c) == Cardinality({i \in 1..Len(data) : data[i] = c})

\* (variant: the candidate counted least often wins)
guess_leastFrequent(data) ==
    LET present == {c \in Candidates : Count(data, c) > 0}
    IN  IF present = {} THEN {0}
        ELSE {c \in present : \A d \in present : Count(data, c) <= Count(data, d)}

guess_(data) ==
    LET present == {c \in Candidates : Count(data, c) > 0}
    IN  IF present = {} THEN {0}
        ELSE {c \in present : \A d \in present : Count(data, d) <= Count(data, c)}

\* The tests of the quoted branch's loop, on the current byte c and the loop
\* state st = [c, pc, ppc, esc, strict, lineno]
\*   "if pc == c" under "c == '"'": the second quote of a doubled pair
escapedQuote(st, c) == c = QUOTE /\ st.pc = c

\* (variant: \r\n closes the field whatever precedes the \r)
closedByCRLF_anyByte(st, c) == c = LF /\ st.pc = CR

\* (variant: the separator closes the field whatever precedes it)
closedBySep_anySep(st, c, s) == c = s.sep

\*   "pc == '"' && c == s.sep"
closedBySep(st, c, s) == st.pc = QUOTE /\ c = s.sep

\*   "pc == '"' && c == '\n'"
closedByLF(st, c) == st.pc = QUOTE /\ c = LF

\*   "c == '\n' && pc == '\r' && ppc == '"'"
closedByCRLF(st, c) == c = LF /\ st.pc = CR /\ st.ppc = QUOTE

\*   "pc == '"' && c != '\r'": a quote that neither is doubled nor closes
unescapedQuote(st, c) == st.pc = QUOTE /\ c # CR

\* the field returned when the closing quote is found: n bytes lie between the
\* last content byte and the end of the terminator
closedField(data, s, st, i, n, ln, e) ==
    [advance |-> i + 1,
     token |-> unescapeQuotes(Slice(data, 1, i - n), st.esc, st.strict),
     err |-> "", errLine |-> 0,
     s |-> [s EXCEPT !.eor = e, !.lineno = ln]]

\* (variant: an error is returned with the bytes scanned so far as a field)
failed_partial(msg, line, s) ==
    [advance |-> 1, token |-> <<>>, err |-> msg, errLine |-> line, s |-> s]

\* "return 0, nil, fmt.Errorf(...)"
failed(msg, line, s) ==
    [advance |-> 0, token |-> Nil, err |-> msg, errLine |-> line, s |-> s]

\* The quoted branch of ScanField: the loop over data[1:], then the atEOF test.
\* s is the Reader as it was on entry (s.lineno is startLineno).
RECURSIVE quotedLoop(_, _, _, _, _)
quotedLoop(data, atEOF, s, i, st) ==
    IF i >= Len(data)
    THEN IF atEOF
         THEN IF st.c = QUOTE
              THEN [advance |-> Len(data),
                    token |-> unescapeQuotes(Slice(data, 1, Len(data) - 1), st.esc, st.strict),
                    err |-> "", errLine |-> 0,
                    s |-> [s EXCEPT !.eor = TRUE, !.lineno = st.lineno]]
              ELSE failed("non-terminated quoted field", s.lineno,
                          [s EXCEPT !.lineno = st.lineno])
         ELSE [advance |-> 0, token |-> Nil, err |-> "", errLine |-> 0,
               s |-> [s EXCEPT !.lineno = st.lineno]]
    ELSE LET c == At(data, i)
             ln == IF c = LF THEN st.lineno + 1 ELSE st.lineno
         IN  IF escapedQuote(st, c)
             THEN quotedLoop(data, atEOF, s, i + 1,
                             [st EXCEPT !.c = c, !.pc = 0, !.esc = @ + 1])
             ELSE IF closedBySep(st, c, s) THEN closedField(data, s, st, i, 1, ln, FALSE)
             ELSE IF closedByLF(st, c) THEN closedField(data, s, st, i, 1, ln, TRUE)
             ELSE IF closedByCRLF(st, c) THEN closedField(data, s, st, i, 2, ln, TRUE)
             ELSE IF unescapedQuote(st, c) /\ ~s.Lazy
             THEN failed("unescaped quote character", ln, [s EXCEPT !.lineno = ln])
             ELSE quotedLoop(data, atEOF, s, i + 1,
                             [st EXCEPT !.c = c, !.ppc = st.pc, !.pc = c, !.lineno = ln,
                                        !.strict = IF unescapedQuote(st, c)
                                                   THEN FALSE ELSE @])

\* The line-comment branch: discard through the first newline, or all at EOF.
commentScan(data, atEOF, s) ==
    LET nl == {i \in 0..(Len(data) - 1) : At(data, i) = LF}
        s1 == [s EXCEPT !.empty = TRUE]
    IN  IF nl # {}
        THEN [advance |-> (CHOOSE i \in nl : \A k \in nl : i <= k) + 1,
              token |-> Nil, err |-> "", errLine |-> 0, s |-> s1]
        ELSE IF atEOF
        THEN [advance |-> Len(data), token |-> Nil, err |-> "", errLine |-> 0, s |-> s1]
        ELSE [advance |-> 0, token |-> Nil, err |-> "", errLine |-> 0, s |-> s1]

\* (variant: Trim is ignored)
maybeTrim_never(s, f) == f

\* "if s.Trim { return ..., trim(f), nil }; return ..., f, nil"
maybeTrim(s, f) == IF s.Trim THEN trim(f) ELSE f

\* (variant: the carriage return before the newline is never removed)
crBeforeLF_never(data, i) == FALSE

\* "i > 0 && data[i-1] == '\r'", tested at the newline data[i]
crBeforeLF(data, i) == i > 0 /\ At(data, i - 1) = CR

\* The unquoted branch: scan to the first separator or newline; at EOF the rest
\* is the final field.
RECURSIVE unquotedLoop(_, _, _, _)
unquotedLoop(data, atEOF, s, i) ==
    IF i >= Len(data)
    THEN IF atEOF
         THEN [advance |-> Len(data), token |-> maybeTrim(s, data),
               err |-> "", errLine |-> 0,
               s |-> [s EXCEPT !.empty = FALSE, !.eor = TRUE]]
         ELSE [advance |-> 0, token |-> Nil, err |-> "", errLine |-> 0, s |-> s]
    ELSE LET c == At(data, i)
         IN  IF c = s.sep
             THEN [advance |-> i + 1, token |-> maybeTrim(s, Slice(data, 0, i)),
                   err |-> "", errLine |-> 0, s |-> [s EXCEPT !.eor = FALSE]]
             ELSE IF c = LF
             THEN IF crBeforeLF(data, i)
                  THEN [advance |-> i + 1, token |-> maybeTrim(s, Slice(data, 0, i - 1)),
                        err |-> "", errLine |-> 0,
                        s |-> [s EXCEPT !.lineno = @ + 1, !.empty = s.eor /\ i = 1,
                                        !.eor = TRUE]]
                  ELSE [advance |-> i + 1, token |-> maybeTrim(s, Slice(data, 0, i)),
                        err |-> "", errLine |-> 0,
                        s |-> [s EXCEPT !.lineno = @ + 1, !.empty = s.eor /\ i = 0,
                                        !.eor = TRUE]]
             ELSE unquotedLoop(data, atEOF, s, i + 1)

\* (variant: a quote anywhere in the data opens a quoted field)
startsQuoted_anyQuote(data, s) ==
    s.quoted /\ \E i \in 0..(Len(data) - 1) : At(data, i) = QUOTE

\* (variant: a leading quote opens a quoted field whether quoting is on or not)
startsQuoted_always(data, s) == Len(data) > 0 /\ At(data, 0) = QUOTE

\* "s.quoted && len(data) > 0 && data[0] == '"'": the field is a quoted one
startsQuoted(data, s) == s.quoted /\ Len(data) > 0 /\ At(data, 0) = QUOTE

\* (variant: the guess flag is left set)
applyGuess_again(s, g) ==
    IF s.guess THEN [s EXCEPT !.sep = IF g > 0 THEN g ELSE @] ELSE s

\* "if s.guess { s.guess = false; if b := guess(data); b > 0 { s.sep = b } }"
applyGuess(s, g) ==
    IF s.guess THEN [s EXCEPT !.guess = FALSE, !.sep = IF g > 0 THEN g ELSE @] ELSE s

\* (variant: nothing is returned at the end of the input, whatever ended the
\* last field)
atEnd_anyEor(data, atEOF, s) == atEOF /\ Len(data) = 0

\* "atEOF && len(data) == 0 && s.eor": the input ended after a whole record
atEnd(data, atEOF, s) == atEOF /\ Len(data) = 0 /\ s.eor

\* Reader.ScanField(data, atEOF) on Reader s; g is what guess(data) returns.
ScanField(data, atEOF, s0, g) ==
    IF atEnd(data, atEOF, s0)
    THEN [advance |-> 0, token |-> Nil, err |-> "", errLine |-> 0, s |-> s0]
    ELSE LET s == applyGuess(s0, g)
         IN  IF startsQuoted(data, s)
             THEN quotedLoop(data, atEOF, [s EXCEPT !.empty = FALSE], 1,
                             [c |-> 0, pc |-> 0, ppc |-> 0, esc |-> 0,
                              strict |-> TRUE, lineno |-> s.lineno])
             ELSE IF s.eor /\ s.Comment # 0 /\ Len(data) > 0 /\ At(data, 0) = s.Comment
             THEN commentScan(data, atEOF, s)
             ELSE unquotedLoop(data, atEOF, s, 0)

-----------------------------------------------------------------------------
(* The embedded bufio.Scanner driving ScanField *)

Self == [sep |-> sep, quoted |-> quoted, guess |-> guess, eor |-> eor,
         lineno |-> lineno, empty |-> empty, Trim |-> Trim, Comment |-> Comment,
         Lazy |-> Lazy]

\* Reader.EmptyLine
EmptyLine(s) == s.empty /\ s.eor

NoCall == [data |-> <<>>, atEOF |-> FALSE, pre |-> [eor |-> TRUE, lineno |-> 1],
           advance |-> 0, token |-> Nil, err |-> "", made |-> FALSE]

\* One iteration of Scanner.Scan that holds data (or has seen the end of the
\* source): call the split function on buf[start:end], then stop on an error,
\* return true on a token, return false at end of stream, or go and read.
Split ==
    /\ pc = "top"
    /\ (end > start \/ srcEOF)
    /\ LET data == Slice(input, start, end)
       IN  \E g \in (IF guess THEN guess_(data) ELSE {0}) :
           \E r \in {ScanField(data, srcEOF, Self, g)} :
                 /\ sep' = r.s.sep
                 /\ guess' = r.s.guess
                 /\ eor' = r.s.eor
                 /\ lineno' = r.s.lineno
                 /\ empty' = r.s.empty
                 /\ call' = [data |-> data, atEOF |-> srcEOF,
                             pre |-> [eor |-> eor, lineno |-> lineno],
                             advance |-> r.advance, token |-> r.token,
                             err |-> r.err, made |-> TRUE]
                 /\ IF r.err # ""
                    THEN /\ scanErr' = r.err
                         /\ errLine' = r.errLine
                         /\ pc' = "stopped"
                         /\ ret' = "false"
                         /\ UNCHANGED <<start, token, out, lines>>
                    ELSE /\ start' = start + r.advance
                         /\ token' = r.token
                         /\ UNCHANGED <<scanErr, errLine>>
                         /\ IF r.token # Nil
                            THEN /\ pc' = "top"
                                 /\ ret' = "true"
                                 /\ out' = Append(out, <<r.token, r.s.eor, EmptyLine(r.s)>>)
                                 /\ lines' = Append(lines, r.s.lineno)
                            ELSE /\ pc' = IF srcEOF THEN "stopped" ELSE "read"
                                 /\ ret' = IF srcEOF THEN "false" ELSE ret
                                 /\ out' = out
                                 /\ lines' = lines
    /\ UNCHANGED <<input, end, srcEOF, quoted, Trim, Comment, Lazy, writerVars,
                   recordVars, lineVars, aliasVars>>

\* The read of Scanner.Scan: the source delivers some more bytes, and reports the
\* end of the stream either with its last bytes or on the read after them.
Read ==
    /\ \/ pc = "read"
       \/ pc = "top" /\ end = start /\ ~srcEOF
    /\ \E n \in 0..(Len(input) - end) :
         /\ n = 0 => end = Len(input)
         /\ end' = end + n
         /\ \E eof \in BOOLEAN :
              /\ eof => end + n = Len(input)
              /\ n = 0 => eof
              /\ srcEOF' = eof
    /\ pc' = "top"
    /\ UNCHANGED <<input, start, token, scanErr, errLine, ret, call, out, lines,
                   readerVars, writerVars, recordVars, lineVars, aliasVars>>

-----------------------------------------------------------------------------
(* bufio.Writer over the sink.  X threads the state through the calls one    *)
(* Writer method makes; ret is the error the last call returned, n the      *)
(* count the sink returned.                                                 *)

\* the sink's Write(p): it takes every byte within its quota; past the quota it
\* takes what is left of it and returns an error
sinkWrite(X, p) ==
    IF X.quota = -1 \/ Len(p) <= X.quota
    THEN [X EXCEPT !.sink = @ \o p,
                   !.quota = IF @ = -1 THEN -1 ELSE @ - Len(p),
                   !.n = Len(p), !.ret = ""]
    ELSE [X EXCEPT !.sink = @ \o SubSeq(p, 1, X.quota),
                   !.quota = 0, !.rejected = TRUE,
                   !.n = X.quota, !.ret = "EIO"]

\* bufio.Writer.Flush
bFlush(X) ==
    IF X.berr # "" THEN [X EXCEPT !.ret = X.berr]
    ELSE IF X.buf = <<>> THEN [X EXCEPT !.ret = ""]
    ELSE LET Y == sinkWrite(X, X.buf)
         IN  IF Y.ret # ""
             THEN [Y EXCEPT !.buf = SubSeq(X.buf, Y.n + 1, Len(X.buf)), !.berr = Y.ret]
             ELSE [Y EXCEPT !.buf = <<>>]

\* bufio.Writer.WriteByte
bWriteByte(X, c) ==
    IF X.berr # "" THEN [X EXCEPT !.ret = X.berr]
    ELSE LET Y == IF BufSize - Len(X.buf) <= 0 THEN bFlush(X) ELSE [X EXCEPT !.ret = ""]
         IN  IF Y.ret # "" THEN [Y EXCEPT !.ret = Y.berr]
             ELSE [Y EXCEPT !.buf = Append(@, c), !.ret = ""]

\* bufio.Writer.Write
RECURSIVE bWrite(_, _)
bWrite(X, p) ==
    IF Len(p) > BufSize - Len(X.buf) /\ X.berr = ""
    THEN IF X.buf = <<>>
         THEN \* large write, empty buffer: written directly from p
              LET Y == sinkWrite(X, p)
                  Z == [Y EXCEPT !.berr = Y.ret]
              IN  bWrite(Z, SubSeq(p, Y.n + 1, Len(p)))
         ELSE LET n == BufSize - Len(X.buf)
                  Y == bFlush([X EXCEPT !.buf = @ \o SubSeq(p, 1, n)])
              IN  bWrite(Y, SubSeq(p, n + 1, Len(p)))
    ELSE IF X.berr # "" THEN [X EXCEPT !.ret = X.berr]
    ELSE [X EXCEPT !.buf = @ \o p, !.ret = ""]

-----------------------------------------------------------------------------
(* The Writer *)

\* Writer.setErr, applied to the error the last bufio call returned
setErr(X) == IF X.werr = "" THEN [X EXCEPT !.werr = X.ret] ELSE X

\* "if _, err := w.b.Write(p); err != nil { w.setErr(err) }"
writeOrSetErr(X, p) == setErr(bWrite(X, p))

\* (variant: a carriage return does not make a field quoted)
needsQuote_noCR(c) == c \in {QUOTE, LF, wsep}

\* (variant: a carriage return makes a field quoted only when UseCRLF is set)
needsQuote_crWithCRLF(c) == c \in {QUOTE, LF, wsep} \cup (IF UseCRLF THEN {CR} ELSE {})

\* (variant: the separator does not make a field quoted)
needsQuote_noSep(c) == c \in {QUOTE, CR, LF}

\* "case '"', '\r', '\n', w.sep": the bytes that make Write quote the field
needsQuote(c) == c \in {QUOTE, CR, LF, wsep}

\* the loop of Writer.Write in quoted mode, then the rest of the field and the
\* closing quote
RECURSIVE writeQuoted(_, _, _, _)
writeQuoted(X, field, i, last) ==
    IF i >= Len(field)
    THEN LET Y == writeOrSetErr(X, Slice(field, last, Len(field)))
         IN  IF last # 0 THEN setErr(bWriteByte(Y, QUOTE)) ELSE Y
    ELSE LET c == At(field, i)
         IN  IF ~needsQuote(c)
             THEN writeQuoted(X, field, i + 1, last)
             ELSE LET X1 == IF last = 0 THEN setErr(bWriteByte(X, QUOTE)) ELSE X
                      X2 == writeOrSetErr(X1, Slice(field, last, i))
                      X3 == setErr(bWriteByte(X2, c))
                      X4 == IF c = QUOTE THEN setErr(bWriteByte(X3, c)) ELSE X3
                  IN  writeQuoted(X4, field, i + 1, i + 1)

\* the body of Writer.Write after the sticky-error test
writeField(X, field) ==
    LET X1 == IF ~X.sor THEN setErr(bWriteByte(X, wsep)) ELSE X
    IN  IF wquoted THEN writeQuoted(X1, field, 0, 0)
        ELSE writeOrSetErr(X1, field)

\* (variant: a Write on a Writer that holds an error reports success)
write_stickyOk(X, field) ==
    IF X.werr # "" THEN [X EXCEPT !.ok = TRUE]
    ELSE LET Y == writeField(X, field)
         IN  [Y EXCEPT !.sor = FALSE, !.ok = (Y.werr = "")]

\* Writer.Write(field); ok is what it returns
write(X, field) ==
    IF X.werr # "" THEN [X EXCEPT !.ok = FALSE]
    ELSE LET Y == writeField(X, field)
         IN  [Y EXCEPT !.sor = FALSE, !.ok = (Y.werr = "")]

\* (variant: the terminator is \n whatever UseCRLF is)
endOfRecord_noCR(X) == [setErr(bWriteByte(X, LF)) EXCEPT !.sor = TRUE]

\* Writer.EndOfRecord()
endOfRecord(X) ==
    LET X1 == IF UseCRLF THEN setErr(bWriteByte(X, CR)) ELSE X
    IN  [setErr(bWriteByte(X1, LF)) EXCEPT !.sor = TRUE]

\* (variant: the error of the flush is dropped)
flush_dropErr(X) == bFlush(X)

\* Writer.Flush()
flush(X) == setErr(bFlush(X))

Thread == [buf |-> b.buf, berr |-> b.err, sink |-> sink,
           quota |-> quota, rejected |-> rejected, werr |-> werr, sor |-> sor,
           ret |-> "", n |-> 0, ok |-> TRUE]

Commit(X) ==
    /\ b' = [buf |-> X.buf, err |-> X.berr]
    /\ sink' = X.sink
    /\ quota' = X.quota
    /\ rejected' = X.rejected
    /\ werr' = X.werr
    /\ sor' = X.sor

\* every byte written so far and not lost: delivered to the sink or still buffered
Stream == sink \o b.buf

Writing == pc = "closed" /\ Len(hist) < MaxOps

\* the caller calls Write with one of its fields
Write ==
    /\ Writing
    /\ \E field \in pool :
         /\ hist' = Append(hist, <<"W", field>>)
         /\ \E X \in {write(Thread, field)} :
              /\ Commit(X)
              /\ wcall' = [op |-> "Write", field |-> field, n0 |-> Len(Stream),
                           err0 |-> werr, sor0 |-> sor, ret |-> X.ok]
    /\ UNCHANGED <<wsep, wquoted, UseCRLF, pool, scannerVars, readerVars,
                   recordVars, lineVars, aliasVars>>

\* the caller calls EndOfRecord
EndOfRecord ==
    /\ Writing
    /\ hist' = Append(hist, <<"E">>)
    /\ \E X \in {endOfRecord(Thread)} : Commit(X)
    /\ wcall' = [op |-> "EndOfRecord", field |-> <<>>, n0 |-> Len(Stream),
                 err0 |-> werr, sor0 |-> sor, ret |-> TRUE]
    /\ UNCHANGED <<wsep, wquoted, UseCRLF, pool, scannerVars, readerVars,
                   recordVars, lineVars, aliasVars>>

\* the caller calls Flush
Flush ==
    /\ pc = "closed"
    /\ hist' = hist
    /\ \E X \in {flush(Thread)} : Commit(X)
    /\ wcall' = [op |-> "Flush", field |-> <<>>, n0 |-> Len(Stream), err0 |-> werr,
                 sor0 |-> sor, ret |-> TRUE]
    /\ UNCHANGED <<wsep, wquoted, UseCRLF, pool, scannerVars, readerVars,
                   recordVars, lineVars, aliasVars>>

-----------------------------------------------------------------------------
(* Reader.ScanRecord *)

\* the largest number of destinations a ScanRecord call is given
MaxVals == 2

NoRecord == [at |-> "idle", n |-> 0, i |-> 0, seen |-> 0, start0 |-> 0, eor0 |-> TRUE,
             count |-> 0, err |-> ""]

\* ScanRecord is entered with n = len(values) >= 1 destinations, each of which
\* takes any field (*string, *[]byte or nil), on a Reader whose Scan has not
\* returned false yet.
ScanRecord ==
    /\ pc = "top"
    /\ rec.at # "scan"
    /\ \E n \in 1..MaxVals :
         rec' = [at |-> "scan", n |-> n, i |-> 0, seen |-> Len(out), start0 |-> start,
                 eor0 |-> eor, count |-> 0, err |-> ""]
    /\ UNCHANGED <<scannerVars, readerVars, writerVars, lineVars, aliasVars>>

\* "s.Scan()" inside ScanRecord: the iterations of Scanner.Scan
ScanSplit == rec.at = "scan" /\ Len(out) = rec.seen /\ Split

ScanRead == rec.at = "scan" /\ Len(out) = rec.seen /\ Read

\* The body of ScanRecord's loop once Scan has returned true: scan again over an
\* empty line before the first field, store the field, compare EndOfRecord()
\* with "this is the last destination", and go on to the next destination.
afterScan(c, s, delivered) ==
    IF c.i = 0 /\ EmptyLine(s)
    THEN [c EXCEPT !.seen = delivered]
    ELSE IF s.eor # (c.i = c.n - 1)
    THEN [c EXCEPT !.at = "done", !.count = c.i, !.err = "unexpected number of fields"]
    ELSE IF c.i + 1 = c.n
    THEN [c EXCEPT !.at = "done", !.count = c.n, !.err = ""]
    ELSE [c EXCEPT !.i = c.i + 1, !.seen = delivered]

\* ScanRecord after its Scan call has returned: "return i, s.Err()" when Scan
\* returned false, the loop body when it returned true.
ScanRecordStep ==
    /\ rec.at = "scan"
    /\ (pc = "stopped" \/ Len(out) > rec.seen)
    /\ rec' = IF pc = "stopped"
              THEN [rec EXCEPT !.at = "done", !.count = rec.i, !.err = scanErr]
              ELSE afterScan(rec, Self, Len(out))
    /\ UNCHANGED <<scannerVars, readerVars, writerVars, lineVars, aliasVars>>

-----------------------------------------------------------------------------
(* LineReader *)

\* "b.w+100 > len(b.buf)": the room ReadLine wants before it reads
Headroom == 100

ErrBufferFull == "buffer full"

EOF == "EOF"

\* bytes.IndexByte: the index of the first c in data, -1 when there is none
IndexByte(data, c) ==
    IF \E i \in 1..Len(data) : data[i] = c
    THEN (CHOOSE i \in 1..Len(data) :
              data[i] = c /\ \A k \in 1..(i - 1) : data[k] # c) - 1
    ELSE -1

\* make([]byte, n)
make(n) == [i \in 1..n |-> 0]

\* copy(dst, from), for len(from) <= len(dst)
copy(dst, from) == [i \in 1..Len(dst) |-> IF i <= Len(from) THEN from[i] ELSE dst[i]]

NoReadLine == [at |-> "none", p |-> 0, base |-> 0, reads |-> 0, sawEOF |-> FALSE,
               afterFinal |-> FALSE, overflowed |-> FALSE, line |-> <<>>, err |-> ""]

\* no LineReader has been constructed
NoLineReader ==
    /\ lr = [buf |-> <<>>, r |-> 0, w |-> 0, max |-> 0]
    /\ rd = [bytes |-> <<>>, pos |-> 0, fails |-> FALSE, whole |-> FALSE]
    /\ rl = NoReadLine

\* NewLineReader(rd, size, max), over a source that will deliver bytes, that may
\* or may not fail with an error other than io.EOF, and that either returns any
\* number of bytes from a read or fills the slice it is given (as strings.Reader)
NewLineReader(bytes, size, max, fails, whole) ==
    /\ lr = [buf |-> make(size), r |-> 0, w |-> 0, max |-> max]
    /\ rd = [bytes |-> bytes, pos |-> 0, fails |-> fails, whole |-> whole]
    /\ rl = [NoReadLine EXCEPT !.at = "idle"]

\* "line[:len(line)-1]" when the line ends with \r
dropCR(line) ==
    IF Len(line) > 0 /\ line[Len(line)] = CR THEN SubSeq(line, 1, Len(line) - 1) ELSE line

\* (variant: the cursor is left two bytes after the newline)
afterLine_twoPast(p, i) == p + i + 2

\* "b.r = p + i + 1"
afterLine(p, i) == p + i + 1

\* (variant: the cursors are reset and the bytes stay where they are)
slide_cursorsOnly(lb) ==
    IF lb.r > 0 THEN [lb EXCEPT !.w = lb.w - lb.r, !.r = 0] ELSE lb

\* "copy(b.buf, b.buf[b.r:b.w]); b.w -= b.r; b.r = 0" when b.r > 0
slide(lb) ==
    IF lb.r > 0
    THEN [lb EXCEPT !.buf = copy(lb.buf, Slice(lb.buf, lb.r, lb.w)), !.w = lb.w - lb.r, !.r = 0]
    ELSE lb

\* "b.w+100 > len(b.buf)"
short(lb) == lb.w + Headroom > Len(lb.buf)

\* (variant: the buffer may always double)
full_never(lb) == FALSE

\* "newSize > b.max", with newSize = len(b.buf) * 2
full(lb) == Len(lb.buf) * 2 > lb.max

\* "buf := make([]byte, newSize); copy(buf, b.buf[:b.w]); b.buf = buf"
grow(lb) == [lb EXCEPT !.buf = copy(make(Len(lb.buf) * 2), Slice(lb.buf, 0, lb.w))]

\* What b.rd.Read(p) may return for len(p) = k >= 1, as <<n, err>>: some bytes,
\* the end of the stream with or after the last bytes, or another error.
Reads(src, k) ==
    LET rem == Len(src.bytes) - src.pos
        most == IF k < rem THEN k ELSE rem
        some == IF src.whole THEN {most} ELSE 0..most
    IN  {<<n, "">> : n \in some \ {0}}
        \cup {<<n, EOF>> : n \in {m \in some : m = rem}}
        \cup (IF src.fails THEN {<<n, "EIO">> : n \in some} ELSE {})

\* ReadLine is entered: "p := b.r"
ReadLine ==
    /\ rl.at \in {"idle", "ret"}
    /\ rl' = [at |-> "loop", p |-> lr.r, base |-> rd.pos - (lr.w - lr.r), reads |-> 0,
              sawEOF |-> FALSE,
              afterFinal |-> (rl.at = "ret" /\ rl.sawEOF /\ rl.err = ""),
              overflowed |-> (rl.overflowed \/ rl.err = ErrBufferFull),
              line |-> <<>>, err |-> ""]
    /\ UNCHANGED <<lr, rd, scannerVars, readerVars, writerVars, recordVars, aliasVars>>

\* One iteration of ReadLine's loop: return the line up to the first newline of
\* b.buf[p:b.w]; otherwise slide the unread bytes to the front, make room (or
\* return ErrBufferFull), read, and return on an error.
ReadLineLoop ==
    /\ rl.at = "loop"
    /\ LET i == IndexByte(Slice(lr.buf, rl.p, lr.w), LF)
           b1 == slide(lr)
       IN  IF i >= 0
           THEN /\ lr' = [lr EXCEPT !.r = afterLine(rl.p, i)]
                /\ rl' = [rl EXCEPT !.at = "ret",
                                    !.line = dropCR(Slice(lr.buf, rl.p, rl.p + i))]
                /\ rd' = rd
           ELSE IF short(b1) /\ full(b1)
           THEN /\ lr' = [b1 EXCEPT !.r = b1.w]
                /\ rl' = [rl EXCEPT !.at = "ret", !.p = b1.w,
                                    !.line = Slice(b1.buf, 0, b1.w), !.err = ErrBufferFull]
                /\ rd' = rd
           ELSE \E b2 \in {IF short(b1) THEN grow(b1) ELSE b1} :
                \E o \in Reads(rd, Len(b2.buf) - b2.w) :
                \E b3 \in {[b2 EXCEPT
                              !.buf = [k \in 1..Len(b2.buf) |->
                                         IF b2.w < k /\ k <= b2.w + o[1]
                                         THEN rd.bytes[rd.pos + k - b2.w]
                                         ELSE b2.buf[k]],
                              !.w = b2.w + o[1]]} :
                  /\ rd' = [rd EXCEPT !.pos = rd.pos + o[1]]
                  /\ IF o[2] # ""
                     THEN /\ lr' = [b3 EXCEPT !.r = b3.w]
                          /\ rl' = [rl EXCEPT
                                      !.at = "ret", !.p = b1.w, !.reads = rl.reads + 1,
                                      !.sawEOF = (o[2] = EOF),
                                      !.line = Slice(b3.buf, 0, b3.w),
                                      !.err = IF b3.w > 0 /\ o[2] = EOF THEN "" ELSE o[2]]
                     ELSE /\ lr' = b3
                          /\ rl' = [rl EXCEPT !.p = b1.w, !.reads = rl.reads + 1]
    /\ UNCHANGED <<scannerVars, readerVars, writerVars, recordVars, aliasVars>>

-----------------------------------------------------------------------------
(* The Scanner's buffer and Reader.value *)

\* the length of the Scanner's buffer (4096 in bufio, scaled down)
ScanBufLen == 4

NoKept == [has |-> FALSE, copy |-> [own |-> TRUE, bytes |-> <<>>, lo |-> 0, hi |-> 0],
           alias |-> [own |-> TRUE, bytes |-> <<>>, lo |-> 0, hi |-> 0],
           orig |-> <<>>, stale |-> FALSE]

\* no Scanner with a buffer has been constructed
NoAlias ==
    /\ al = [bytes |-> <<>>, pos |-> 0, fails |-> FALSE, whole |-> FALSE, buf |-> <<>>,
             start |-> 0, end |-> 0, eof |-> FALSE, at |-> "none", fresh |-> FALSE,
             tok |-> [lo |-> 0, hi |-> 0]]
    /\ kept = NoKept

\* bufio.NewScanner over a source that will deliver bytes
NewBuffer(bytes) ==
    /\ al = [bytes |-> bytes, pos |-> 0, fails |-> FALSE, whole |-> FALSE,
             buf |-> make(ScanBufLen), start |-> 0, end |-> 0, eof |-> FALSE,
             at |-> "top", fresh |-> FALSE, tok |-> [lo |-> 0, hi |-> 0]]
    /\ kept = NoKept

\* (variant: the destination always receives the Scanner's slice)
value_neverCopies(a, copied) ==
    [own |-> FALSE, bytes |-> <<>>, lo |-> a.tok.lo, hi |-> a.tok.hi]

\* Reader.value for a *[]byte destination: a new array holding a copy of
\* s.Bytes() when copied, the slice s.Bytes() of the Scanner's buffer otherwise
value(a, copied) ==
    IF copied
    THEN [own |-> TRUE, bytes |-> Slice(a.buf, a.tok.lo, a.tok.hi), lo |-> 0, hi |-> 0]
    ELSE [own |-> FALSE, bytes |-> <<>>, lo |-> a.tok.lo, hi |-> a.tok.hi]

\* the bytes a destination holds now
Content(d) == IF d.own THEN d.bytes ELSE Slice(al.buf, d.lo, d.hi)

\* One iteration of Scanner.Scan over the buffer: ScanField is called on
\* buf[start:end]; an unquoted, untrimmed token is the slice that begins at
\* start.
BufSplit ==
    /\ al.at = "top"
    /\ (al.end > al.start \/ al.eof)
    /\ \E r \in {ScanField(Slice(al.buf, al.start, al.end), al.eof, Self, 0)} :
         /\ sep' = r.s.sep
         /\ guess' = r.s.guess
         /\ eor' = r.s.eor
         /\ lineno' = r.s.lineno
         /\ empty' = r.s.empty
         /\ al' = IF r.err # ""
                  THEN [al EXCEPT !.at = "stopped", !.fresh = FALSE]
                  ELSE IF r.token # Nil
                  THEN [al EXCEPT !.start = al.start + r.advance, !.fresh = TRUE,
                                  !.tok = [lo |-> al.start, hi |-> al.start + Len(r.token)]]
                  ELSE IF al.eof
                  THEN [al EXCEPT !.start = 0, !.end = 0, !.at = "stopped", !.fresh = FALSE]
                  ELSE [al EXCEPT !.start = al.start + r.advance, !.at = "read",
                                  !.fresh = FALSE]
    /\ kept' = [kept EXCEPT !.stale = TRUE]
    /\ UNCHANGED <<quoted, Trim, Comment, Lazy, scannerVars, writerVars, recordVars,
                   lineVars>>

\* "copy(s.buf, s.buf[s.start:s.end]); s.end -= s.start; s.start = 0" when
\* s.start > 0 && (s.end == len(s.buf) || s.start > len(s.buf)/2)
shift(a) ==
    IF a.start > 0 /\ (a.end = Len(a.buf) \/ a.start > Len(a.buf) \div 2)
    THEN [a EXCEPT !.buf = copy(a.buf, Slice(a.buf, a.start, a.end)),
                   !.end = a.end - a.start, !.start = 0]
    ELSE a

\* The read of Scanner.Scan: the data is shifted to the beginning of the buffer
\* when room is needed, and the source fills some of buf[end:].  (The buffer is
\* long enough for every field of the inputs, so it never has to grow.)
BufRead ==
    /\ \/ al.at = "read"
       \/ al.at = "top" /\ al.end = al.start /\ ~al.eof
    /\ \E a \in {shift(al)} :
         /\ a.end < Len(a.buf)
         /\ \E o \in Reads(a, Len(a.buf) - a.end) :
              al' = [a EXCEPT
                       !.buf = [k \in 1..Len(a.buf) |->
                                  IF a.end < k /\ k <= a.end + o[1]
                                  THEN a.bytes[a.pos + k - a.end]
                                  ELSE a.buf[k]],
                       !.end = a.end + o[1], !.pos = a.pos + o[1],
                       !.eof = (o[2] = EOF), !.at = "top", !.fresh = FALSE]
    /\ kept' = [kept EXCEPT !.stale = TRUE]
    /\ UNCHANGED <<scannerVars, readerVars, writerVars, recordVars, lineVars>>

\* The caller fills two *[]byte destinations from the field just scanned: one
\* as ScanRecord does (value(v, true)), one as Value does (value(v, false)).
Keep ==
    /\ al.at = "top" /\ al.fresh
    /\ kept' = [has |-> TRUE, copy |-> value(al, TRUE), alias |-> value(al, FALSE),
                orig |-> Slice(al.buf, al.tok.lo, al.tok.hi), stale |-> FALSE]
    /\ UNCHANGED <<al, scannerVars, readerVars, writerVars, recordVars, lineVars>>

-----------------------------------------------------------------------------
(* Construction *)

\* (variant: lines are numbered from 0)
NewReader_lineZero(q, g, tr, cm, lz) ==
    /\ sep = COMMA /\ quoted = q /\ guess = g /\ eor = TRUE /\ lineno = 0
    /\ empty = FALSE /\ Trim = tr /\ Comment = cm /\ Lazy = lz

\* NewReader(r, ',', q, g), then the caller's settings of Trim, Comment and Lazy
NewReader(q, g, tr, cm, lz) ==
    /\ sep = COMMA /\ quoted = q /\ guess = g /\ eor = TRUE /\ lineno = 1
    /\ empty = FALSE /\ Trim = tr /\ Comment = cm /\ Lazy = lz

NewScanner(in) ==
    /\ input = in /\ start = 0 /\ end = 0 /\ srcEOF = FALSE /\ token = Nil
    /\ scanErr = "" /\ errLine = 0 /\ ret = "none" /\ call = NoCall /\ out = <<>>
    /\ lines = <<>>

NoWCall == [op |-> "none", field |-> <<>>, n0 |-> 0, err0 |-> "", sor0 |-> TRUE, ret |-> TRUE]

\* NewWriter(w, ',', q), then the caller's setting of UseCRLF
NewWriter(q, crlf, qt, fields) ==
    /\ wsep = COMMA /\ wquoted = q /\ sor = TRUE /\ werr = "" /\ UseCRLF = crlf
    /\ b = [buf |-> <<>>, err |-> ""]
    /\ sink = <<>> /\ quota = qt /\ rejected = FALSE
    /\ pool = fields /\ hist = <<>> /\ wcall = NoWCall

\* the inputs of the examples and tests
\*   c1,"c""2","c\n3","c,4"            (Example_reader)
ExampleInput ==
    <<99, 49, COMMA, QUOTE, 99, QUOTE, QUOTE, 50, QUOTE, COMMA,
      QUOTE, 99, LF, 51, QUOTE, COMMA, QUOTE, 99, COMMA, 52, QUOTE>>

\*   c1  c"2  c\n3  c,4                (Example_writer)
ExampleFields ==
    {<<99, 49>>, <<99, QUOTE, 50>>, <<99, LF, 51>>, <<99, COMMA, 52>>}

ReaderAlphabet == {ByteA, QUOTE, COMMA, LF, CR}

\* longer inputs that open a quoted field, over fewer bytes
QuotedAlphabet == {ByteA, QUOTE, LF, CR}

QuotedInputs == {<<QUOTE>> \o t : t \in SeqsUpTo(QuotedAlphabet, MaxQuotedLen)}

\*   "a""b","c""\r\nd"                (EscapedQuoteAndEmbeddedNewLine)
EscapedQuoteAndEmbeddedNewLine ==
    <<QUOTE, ByteA, QUOTE, QUOTE, 98, QUOTE, COMMA,
      QUOTE, 99, QUOTE, QUOTE, CR, LF, 100, QUOTE>>

ReaderInputs == SeqsUpTo(ReaderAlphabet, MaxLen) \cup QuotedInputs
                    \cup {ExampleInput, EscapedQuoteAndEmbeddedNewLine}

WriterAlphabet == {ByteA, QUOTE, COMMA, LF, CR}

\*   abc\rdef                          (writeTests)
AbcCrDef == <<97, 98, 99, CR, 100, 101, 102>>

\* the caller writes one enumerated field over and over, or picks among a few
WriterPools ==
    {{f} : f \in SeqsUpTo(WriterAlphabet, MaxFieldLen)}
        \cup {ExampleFields, {<<>>, <<ByteA>>, <<COMMA>>}, {AbcCrDef}}

\* fields without control bytes
PlainAlphabet == {ByteA, QUOTE, COMMA}

PlainPools ==
    {{f} : f \in SeqsUpTo(PlainAlphabet, MaxFieldLen)}
        \cup {{<<>>, <<ByteA>>, <<ByteA, QUOTE, ByteA>>}}

\* the calls write whole records: at least one, each of at least one field and
\* each ended by EndOfRecord
WholeRecords(h) ==
    /\ h # <<>>
    /\ h[Len(h)][1] = "E"
    /\ \A i \in 1..Len(h) : h[i][1] = "E" => (i > 1 /\ h[i - 1][1] = "W")

\* A Reader over an arbitrary byte stream.
InitReader ==
    /\ \E in \in ReaderInputs : NewScanner(in)
    /\ pc = "top"
    /\ \E q \in BOOLEAN, tr \in BOOLEAN, lz \in BOOLEAN : NewReader(q, FALSE, tr, 0, lz)
    /\ NewWriter(TRUE, FALSE, -1, {})
    /\ rec = NoRecord
    /\ NoLineReader
    /\ NoAlias

\* the inputs of the Reader's tests
\*   a "word","b"                      (BareQuote)
BareQuote ==
    <<ByteA, SPACE, QUOTE, 119, 111, 114, 100, QUOTE, COMMA, QUOTE, 98, QUOTE>>

\*   "a "word","b"                     (ExtraneousQuote)
ExtraneousQuote == <<QUOTE>> \o BareQuote

\*   a""b,c                            (BareDoubleQuotes)
BareDoubleQuotes == <<ByteA, QUOTE, QUOTE, 98, COMMA, 99>>

\*    "a"," b",c                       (TrimQuote)
TrimQuote == <<SPACE, QUOTE, ByteA, QUOTE, COMMA, QUOTE, SPACE, 98, QUOTE, COMMA, 99>>

\*    a,b ," c ", d                    (TestTrim)
TrimSpaceQuoted ==
    <<SPACE, ByteA, COMMA, 98, SPACE, COMMA, QUOTE, SPACE, 99, SPACE, QUOTE, COMMA,
      SPACE, 100, SPACE>>

\*   a,b;c\td:e|f;g                    (TestGuess)
GuessInput ==
    <<ByteA, COMMA, 98, SEMI, 99, TAB, 100, COLON, 101, PIPE, 102, SEMI, 103>>

\*   a,#\n# comment\nb\n# comment      (TestLineComment)
LineComment ==
    <<ByteA, COMMA, HASH, LF, HASH, SPACE, 99, 111, 109, 109, 101, 110, 116, LF,
      98, LF, HASH, SPACE, 99, 111, 109, 109, 101, 110, 116>>

\*   a,#\n# comment\nb                 (the same without its last two lines' end)
LineCommentShort == SubSeq(LineComment, 1, 15)

\*   #1,2,3\na,b,#\n#comment\nc\n# comment    (Comment)
CommentTest ==
    <<HASH, 49, COMMA, 50, COMMA, 51, LF, ByteA, COMMA, 98, COMMA, HASH, LF,
      HASH, 99, 111, 109, 109, 101, 110, 116, LF, 99, LF,
      HASH, SPACE, 99, 111, 109, 109, 101, 110, 116>>

TestInputs == {BareQuote, ExtraneousQuote, BareDoubleQuotes, TrimQuote, TrimSpaceQuoted,
               GuessInput, LineComment, LineCommentShort, CommentTest}

OptionAlphabet == {ByteA, SPACE, HASH, COMMA, SEMI, QUOTE, LF, CR}

OptionInputs == SeqsUpTo(OptionAlphabet, MaxOptLen) \cup TestInputs

\* A Reader with any of its options set: quoting, guessing, Trim, the comment
\* marker '#' and Lazy.
InitOptions ==
    /\ \E in \in OptionInputs : NewScanner(in)
    /\ pc = "top"
    /\ \E q \in BOOLEAN, g \in BOOLEAN, tr \in BOOLEAN, cm \in {0, HASH}, lz \in BOOLEAN :
         NewReader(q, g, tr, cm, lz)
    /\ NewWriter(TRUE, FALSE, -1, {})
    /\ rec = NoRecord
    /\ NoLineReader
    /\ NoAlias

\* A Writer over a sink that may reject.
InitWriter ==
    /\ \E q \in BOOLEAN, crlf \in BOOLEAN, qt \in (-1)..MaxQuota, fields \in WriterPools :
         NewWriter(q, crlf, qt, fields)
    /\ NewScanner(<<>>)
    /\ pc = "closed"
    /\ NewReader(TRUE, FALSE, FALSE, 0, FALSE)
    /\ rec = NoRecord
    /\ NoLineReader
    /\ NoAlias

\* A quoting Writer over a sound sink, whose output a quoting Reader then reads.
Init ==
    /\ \E crlf \in BOOLEAN, fields \in PlainPools : NewWriter(TRUE, crlf, -1, fields)
    /\ NewScanner(<<>>)
    /\ pc = "closed"
    /\ \E lz \in BOOLEAN : NewReader(TRUE, FALSE, FALSE, 0, lz)
    /\ rec = NoRecord
    /\ NoLineReader
    /\ NoAlias

\* The caller has written whole records, has flushed the Writer without error,
\* and constructs the Reader over the bytes the sink received.
Open ==
    /\ pc = "closed"
    /\ WholeRecords(hist)
    /\ wcall.op = "Flush"
    /\ werr = ""
    /\ input' = sink
    /\ pc' = "top"
    /\ UNCHANGED <<start, end, srcEOF, token, scanErr, errLine, ret, call, out, lines,
                   readerVars, writerVars, recordVars, lineVars, aliasVars>>

NextReader == Split \/ Read

NextWriter == Write \/ EndOfRecord \/ Flush

Next == Write \/ EndOfRecord \/ Flush \/ Open \/ Split \/ Read

SpecReader == InitReader /\ [][NextReader]_vars

SpecWriter == InitWriter /\ [][NextWriter]_vars

SpecOptions == InitOptions /\ [][NextReader]_vars

Spec == Init /\ [][Next]_vars

\* the inputs of ScanRecord: unquoted lines, some of them comments
MaxRecLen == 5

RecordAlphabet == {ByteA, COMMA, LF, HASH}

RecordInputs == SeqsUpTo(RecordAlphabet, MaxRecLen)

\* A Reader of unquoted fields, with or without the comment marker '#', whose
\* caller reads it with ScanRecord.
InitRecord ==
    /\ \E in \in RecordInputs : NewScanner(in)
    /\ pc = "top"
    /\ \E cm \in {0, HASH} : NewReader(FALSE, FALSE, FALSE, cm, FALSE)
    /\ NewWriter(TRUE, FALSE, -1, {})
    /\ rec = NoRecord
    /\ NoLineReader
    /\ NoAlias

NextRecord == ScanRecord \/ ScanSplit \/ ScanRead \/ ScanRecordStep

SpecRecord == InitRecord /\ [][NextRecord]_vars

\* the inputs of the Scanner with a short buffer: unquoted fields of two
\* different bytes, each short enough to lie in the buffer with its terminator
MaxKeepLen == 5

KeepAlphabet == {ByteA, 98, COMMA, LF}

KeepInputs ==
    {in \in SeqsUpTo(KeepAlphabet, MaxKeepLen) :
        \A i \in 1..(Len(in) - ScanBufLen + 1) :
            \E j \in i..(i + ScanBufLen - 1) : in[j] \in {COMMA, LF}}

\* A Reader of unquoted fields whose caller keeps byte slices of the fields.
InitKeep ==
    /\ \E in \in KeepInputs : NewBuffer(in)
    /\ NewScanner(<<>>)
    /\ pc = "closed"
    /\ NewReader(FALSE, FALSE, FALSE, 0, FALSE)
    /\ NewWriter(TRUE, FALSE, -1, {})
    /\ rec = NoRecord
    /\ NoLineReader

NextKeep == BufSplit \/ BufRead \/ Keep

SpecKeep == InitKeep /\ [][NextKeep]_vars

\* the sizes and limits of the LineReaders: below and just above the room
\* ReadLine wants
MaxSize == 2

Sizes == (1..MaxSize) \cup {Headroom + k : k \in 1..MaxSize}

Limits(size) == {size, 2 * size + 1, 4 * size}

MaxLineLen == 3

LineAlphabet == {ByteA, LF, CR}

\* one unterminated line of n bytes
LongLine(n) == [i \in 1..n |-> ByteA]

\* A LineReader over an arbitrary source of a few bytes, or over a source that
\* holds a single line too long for it (one that fills every read when the
\* line is longer than Headroom).
InitLine ==
    /\ \E size \in Sizes : \E max \in Limits(size) :
         \/ \E bytes \in SeqsUpTo(LineAlphabet, MaxLineLen), fails \in BOOLEAN :
               NewLineReader(bytes, size, max, fails, FALSE)
         \/ NewLineReader(LongLine(max + 1), size, max, FALSE, max > Headroom)
    /\ NewScanner(<<>>)
    /\ pc = "closed"
    /\ NewReader(TRUE, FALSE, FALSE, 0, FALSE)
    /\ NewWriter(TRUE, FALSE, -1, {})
    /\ rec = NoRecord
    /\ NoAlias

NextLine == ReadLine \/ ReadLineLoop

SpecLine == InitLine /\ [][NextLine]_vars

\* A ReadLine call that has begun goes on, and the source answers each read.
SpecLineFair == SpecLine /\ WF_vars(ReadLineLoop)


-----------------------------------------------------------------------------
(* Reference definitions for the properties below: what a quoted field is,  *)
(* read off the format rather than off the scanner's loop.                  *)

IsPrefix(p, q) == Len(p) <= Len(q) /\ SubSeq(q, 1, Len(p)) = p

\* The quotes of data[i:] that are not part of a doubled pair, pairing from the
\* left (Go indices).
RECURSIVE LoneQuotes(_, _)
LoneQuotes(data, i) ==
    IF i >= Len(data) THEN {}
    ELSE IF At(data, i) # QUOTE THEN LoneQuotes(data, i + 1)
    ELSE IF i + 1 < Len(data) /\ At(data, i + 1) = QUOTE THEN LoneQuotes(data, i + 2)
    ELSE {i} \cup LoneQuotes(data, i + 1)

\* The number of doubled pairs in bs
RECURSIVE Pairs(_)
Pairs(bs) ==
    IF Len(bs) < 2 THEN 0
    ELSE IF bs[1] = QUOTE /\ bs[2] = QUOTE THEN 1 + Pairs(SubSeq(bs, 3, Len(bs)))
    ELSE Pairs(Tail(bs))

\* bs with each doubled pair replaced by one quote
RECURSIVE Collapse(_)
Collapse(bs) ==
    IF Len(bs) < 2 THEN bs
    ELSE IF bs[1] = QUOTE /\ bs[2] = QUOTE
         THEN <<QUOTE>> \o Collapse(SubSeq(bs, 3, Len(bs)))
    ELSE <<bs[1]>> \o Collapse(Tail(bs))

\* The length of the terminator that follows the quote at k: the separator or
\* \n (1), \r\n (2), the end of the input (0); -1 when none follows.
TermLen(data, k, atEOF) ==
    IF k + 1 < Len(data) /\ At(data, k + 1) \in {sep, LF} THEN 1
    ELSE IF k + 2 < Len(data) /\ At(data, k + 1) = CR /\ At(data, k + 2) = LF THEN 2
    ELSE IF k + 1 = Len(data) /\ atEOF THEN 0
    ELSE -1

Closings(data, atEOF) == {k \in LoneQuotes(data, 1) : TermLen(data, k, atEOF) >= 0}

FirstClosing(data, atEOF) ==
    CHOOSE k \in Closings(data, atEOF) : \A j \in Closings(data, atEOF) : k <= j

\* the last ScanField call was made on a window that starts a quoted field
QuotedCall == call.made /\ quoted /\ call.data # <<>> /\ At(call.data, 0) = QUOTE
              /\ ~(call.atEOF /\ Len(call.data) = 0 /\ call.pre.eor)

-----------------------------------------------------------------------------
(* Properties *)

ExampleOut ==
    << <<<<99, 49>>, FALSE, FALSE>>, <<<<99, QUOTE, 50>>, FALSE, FALSE>>,
       <<<<99, LF, 51>>, FALSE, FALSE>>, <<<<99, COMMA, 52>>, TRUE, FALSE>> >>

\* C1: when ScanField, with quoting enabled, is called on data that starts with
\* a quote and holds a lone quote followed by the separator, \n, \r\n or the end
\* of input, and returns no error, the field it returns ends at the first such
\* quote: it consumes through the terminator, the separators and newlines
\* before that quote are content (the content is returned as it is when it holds
\* no doubled quote), and EndOfRecord() is false exactly when the terminator is
\* the separator.  The input c1,"c""2","c\n3","c,4" yields c1, c"2, c\n3, c,4
\* with EndOfRecord() true only after the last.
C1_QuotedFieldExtent ==
    /\ (QuotedCall /\ call.err = "" /\ Closings(call.data, call.atEOF) # {}) =>
         LET k == FirstClosing(call.data, call.atEOF)
             n == TermLen(call.data, k, call.atEOF)
             content == Slice(call.data, 1, k)
         IN  /\ call.token # Nil
             /\ call.advance = k + 1 + n
             /\ eor = ~(n = 1 /\ At(call.data, k + 1) = sep)
             /\ Pairs(content) = 0 => call.token = content
    /\ (input = ExampleInput /\ quoted) =>
         /\ IsPrefix(out, ExampleOut)
         /\ scanErr = ""
         /\ pc = "stopped" => out = ExampleOut

\* the example has been read to its end
C1_Witness ==
    input = ExampleInput /\ quoted /\ pc = "stopped" /\ out = ExampleOut

\* the content of the quoted field of the last call is well formed: it is closed,
\* and no quote before the closing one is lone
WellFormedQuoted ==
    /\ QuotedCall
    /\ Closings(call.data, call.atEOF) # {}
    /\ \A j \in LoneQuotes(call.data, 1) : FirstClosing(call.data, call.atEOF) <= j

\* C2: for a well-formed quoted field (every quote between the delimiting quotes
\* belongs to a doubled pair) ScanField returns, without error, the bytes between
\* the opening and the closing quote with each doubled quote replaced by one
\* quote; its length is the raw length less the number of doubled pairs.
C2_QuotedFieldUnescaped ==
    WellFormedQuoted =>
        LET content == Slice(call.data, 1, FirstClosing(call.data, call.atEOF))
        IN  /\ call.err = ""
            /\ call.token = Collapse(content)
            /\ Len(call.token) = Len(content) - Pairs(content)

\* a well-formed quoted field with a doubled quote in it has been returned
C2_Witness ==
    /\ WellFormedQuoted
    /\ Pairs(Slice(call.data, 1, FirstClosing(call.data, call.atEOF))) > 0
    /\ call.token # Nil
    /\ QUOTE \in {call.token[i] : i \in 1..Len(call.token)}

\* the last ScanField call was made on a window that starts an unquoted field
UnquotedCall ==
    /\ call.made
    /\ ~(call.atEOF /\ Len(call.data) = 0 /\ call.pre.eor)
    /\ ~(quoted /\ call.data # <<>> /\ At(call.data, 0) = QUOTE)
    /\ ~(call.pre.eor /\ Comment # 0 /\ call.data # <<>> /\ At(call.data, 0) = Comment)

\* the positions of the separators and newlines of data
Terminators(data) == {i \in 0..(Len(data) - 1) : At(data, i) \in {sep, LF}}

FirstTerminator(data) ==
    CHOOSE i \in Terminators(data) : \A j \in Terminators(data) : i <= j

Trimmed(f) == IF Trim THEN trim(f) ELSE f

\* C3: an unquoted field ends at the first separator (EndOfRecord() false) or at
\* the first \n (EndOfRecord() true); the field is the bytes before it, less a \r
\* that immediately precedes that \n and no other \r; when the input ends with no
\* terminator the remaining bytes are the final field, with EndOfRecord() true
\* and no error.  (With Trim set the field is those bytes trimmed.)
C3_UnquotedField ==
    UnquotedCall =>
        /\ call.err = ""
        /\ IF Terminators(call.data) # {}
           THEN LET i == FirstTerminator(call.data)
                    nl == At(call.data, i) = LF
                    raw == IF nl /\ i > 0 /\ At(call.data, i - 1) = CR
                           THEN Slice(call.data, 0, i - 1)
                           ELSE Slice(call.data, 0, i)
                IN  /\ call.token = Trimmed(raw)
                    /\ call.advance = i + 1
                    /\ eor = nl
           ELSE IF call.atEOF
           THEN /\ call.token = Trimmed(call.data)
                /\ call.advance = Len(call.data)
                /\ eor = TRUE
           ELSE call.token = Nil /\ call.advance = 0 /\ eor = call.pre.eor

\* \r,\r\n has been read without Trim: the bare \r is a field, ended by the
\* separator, and the \r before the \n is removed from the second, empty field
C3_Witness ==
    /\ ~Trim
    /\ input = <<CR, COMMA, CR, LF>>
    /\ pc = "stopped"
    /\ out = << <<<<CR>>, FALSE, FALSE>>, <<<<>>, TRUE, FALSE>> >>

\* the first lone quote of the quoted field of the last call is followed by a
\* byte that is neither the separator, nor \n, nor the \r of a \r\n
StrayQuote ==
    /\ QuotedCall
    /\ LoneQuotes(call.data, 1) # {}
    /\ LET L == LoneQuotes(call.data, 1)
           k == CHOOSE i \in L : \A j \in L : i <= j
           n == Len(call.data)
       IN  /\ k + 1 < n
           /\ At(call.data, k + 1) \notin {sep, LF}
           /\ At(call.data, k + 1) = CR =>
                \/ k + 2 < n /\ At(call.data, k + 2) # LF
                \/ k + 2 = n /\ call.atEOF

\* C9: with quoting enabled and Lazy disabled, a lone quote of a quoted field
\* followed by a byte that is not the separator, not \n and not the \r of a \r\n
\* makes ScanField fail with the unescaped-quote error, and no field is
\* returned.
C9_StrayQuoteFails ==
    (StrayQuote /\ ~Lazy) =>
        call.err = "unescaped quote character" /\ call.token = Nil

\* C10: with Lazy enabled ScanField never returns the unescaped-quote error;
\* the quoted field ends at the first lone quote followed by the separator, \n,
\* \r\n or the end of input, and the field returned is the content with the
\* doubled quotes collapsed and every other byte, the lone quotes too, kept.
C10_LazyQuotes ==
    (QuotedCall /\ Lazy) =>
        /\ call.err # "unescaped quote character"
        /\ Closings(call.data, call.atEOF) # {} =>
             LET k == FirstClosing(call.data, call.atEOF)
                 n == TermLen(call.data, k, call.atEOF)
             IN  /\ call.err = ""
                 /\ call.advance = k + 1 + n
                 /\ call.token = Collapse(Slice(call.data, 1, k))

-----------------------------------------------------------------------------
(* Reference definitions for the Writer's properties *)

Bytes(f) == {f[i] : i \in 1..Len(f)}

\* f with every quote doubled
RECURSIVE Doubled(_)
Doubled(f) ==
    IF f = <<>> THEN <<>>
    ELSE (IF Head(f) = QUOTE THEN <<QUOTE, QUOTE>> ELSE <<Head(f)>>) \o Doubled(Tail(f))

\* the wire form of a field
Encoded(f) ==
    IF wquoted /\ Bytes(f) \cap {wsep, QUOTE, LF, CR} # {}
    THEN <<QUOTE>> \o Doubled(f) \o <<QUOTE>>
    ELSE f

Terminator == IF UseCRLF THEN <<CR, LF>> ELSE <<LF>>

\* the wire form of a sequence of Writer calls; first: no field of the current
\* record has been written yet
RECURSIVE Serialized(_, _)
Serialized(h, first) ==
    IF h = <<>> THEN <<>>
    ELSE IF Head(h)[1] = "W"
         THEN (IF first THEN <<>> ELSE <<wsep>>) \o Encoded(Head(h)[2])
                  \o Serialized(Tail(h), FALSE)
    ELSE Terminator \o Serialized(Tail(h), TRUE)

\* what the last call appended to the stream
Emitted == SubSeq(Stream, wcall.n0 + 1, Len(Stream))

ExampleWrites == << <<"W", <<99, 49>> >>, <<"W", <<99, QUOTE, 50>> >>,
                    <<"W", <<99, LF, 51>> >>, <<"W", <<99, COMMA, 52>> >> >>

\* C4: an error-free Write emits the field wrapped in quotes, every quote in it
\* doubled and the other bytes unchanged, if and only if quoting is enabled and
\* the field holds the separator, a quote, \n or \r; otherwise it emits the
\* field's bytes as they are (every field when quoting is disabled, and the
\* empty field).  Writing c1, c"2, c\n3, c,4 emits c1,"c""2","c\n3","c,4".
C4_WriteQuotesWhenNeeded ==
    /\ (wcall.op = "Write" /\ werr = "") =>
         /\ wcall.ret
         /\ Emitted = (IF wcall.sor0 THEN <<>> ELSE <<wsep>>) \o Encoded(wcall.field)
    /\ (hist = ExampleWrites /\ wquoted /\ werr = "") => Stream = ExampleInput

\* the four fields of the example have been written
C4_Witness == hist = ExampleWrites /\ wquoted /\ werr = "" /\ Stream = ExampleInput

\* C5: on an error-free Writer the stream is the fields of each record joined by
\* exactly one separator, with none before the first field of a record, and
\* each EndOfRecord call's \n, or \r\n when UseCRLF is set.
C5_SeparatorsAndTerminators ==
    werr = "" => Stream = Serialized(hist, TRUE)

\* two records, the first of two fields, have been written with UseCRLF set
C5_Witness ==
    /\ werr = "" /\ UseCRLF
    /\ \E f, g, h \in pool :
         hist = << <<"W", f>>, <<"W", g>>, <<"E">>, <<"W", h>>, <<"E">> >>

\* C7: once an error is latched, every later call leaves Err() as it is and
\* delivers no byte to the sink (nor to the buffer), and a Write returns false.
C7_StickyError ==
    [][werr # "" =>
         /\ werr' = werr
         /\ sink' = sink
         /\ b' = b
         /\ wcall'.op = "Write" => ~wcall'.ret]_vars

\* the first Write overflowed the buffer into a sink that took nothing; then
\* EndOfRecord, Write and Flush were called with that error latched
C7_Witness ==
    /\ Len(hist) = 3
    /\ hist[1][1] = "W" /\ Len(Encoded(hist[1][2])) > BufSize /\ sink = <<>>
    /\ hist[2][1] = "E" /\ hist[3][1] = "W"
    /\ wcall.op = "Flush" /\ werr # "" /\ wcall.err0 = werr

\* C8: after Flush, Err() is non-nil if the sink has rejected a write, and nil
\* if the sink has accepted every write, in which case every byte written has
\* reached the sink.
C8_FlushReportsSinkFailure ==
    wcall.op = "Flush" =>
        /\ rejected => werr # ""
        /\ ~rejected => (werr = "" /\ sink = Serialized(hist, TRUE))

\* the sink rejected the write of a Flush that followed a Write which had
\* returned true
C8_Witness ==
    /\ wcall.op = "Flush" /\ rejected /\ wcall.err0 = "" /\ werr # ""
    /\ hist # <<>> /\ hist[Len(hist)][1] = "W"

-----------------------------------------------------------------------------
(* Round trip *)

\* the fields written, each with whether it is the last of its record
RECURSIVE FieldsWritten(_)
FieldsWritten(h) ==
    IF h = <<>> THEN <<>>
    ELSE IF Head(h)[1] = "W"
         THEN << <<Head(h)[2], Len(h) > 1 /\ h[2][1] = "E">> >> \o FieldsWritten(Tail(h))
    ELSE FieldsWritten(Tail(h))

\* the fields read, each with EndOfRecord() after it
FieldsRead == [i \in 1..Len(out) |-> <<out[i][1], out[i][2]>>]

\* C6: when whole records of fields without control bytes are written by a
\* quoting Writer and the bytes the sink received are read by a quoting Reader
\* with the same separator (no trim, no comment marker, no guessing), the Reader
\* yields the fields written, in order, with EndOfRecord() true exactly after
\* the last field of each record, and no error.
C6_RoundTrip ==
    (pc # "closed" /\ WholeRecords(hist)) =>
        /\ scanErr = ""
        /\ IsPrefix(FieldsRead, FieldsWritten(hist))
        /\ pc = "stopped" => FieldsRead = FieldsWritten(hist)

\* a"b and then a record of two fields have been written, "a""b" was on the
\* wire, and everything has been read back
C6_Witness ==
    /\ pc = "stopped"
    /\ WholeRecords(hist)
    /\ Len(out) = 3
    /\ out[1] = <<<<ByteA, QUOTE, ByteA>>, TRUE, FALSE>>
    /\ IsPrefix(<<QUOTE, ByteA, QUOTE, QUOTE, ByteA, QUOTE>>, input)

-----------------------------------------------------------------------------
(* Quotes outside quoted fields *)

BareQuoteOut ==
    << <<<<ByteA, SPACE, QUOTE, 119, 111, 114, 100, QUOTE>>, FALSE, FALSE>>,
       <<<<98>>, TRUE, FALSE>> >>

\* the Reader has stopped; ok: with no error
Stopped(ok) == pc = "stopped" /\ (ok <=> scanErr = "")

\* C11 as stated: a "word","b", read with quoting enabled, fails with the
\* unescaped-quote error at line 1 when Lazy is disabled, and succeeds when Lazy
\* is enabled, with a "word" as its first field.
C11_BareQuoteFailsWhenStrict ==
    (input = BareQuote /\ quoted /\ pc = "stopped") =>
        IF Lazy
        THEN scanErr = "" /\ out # <<>> /\ out[1] = BareQuoteOut[1]
        ELSE scanErr = "unescaped quote character" /\ errLine = 1

\* C11 (amended): a "word","b", read with quoting enabled, succeeds whether Lazy
\* is disabled or enabled and yields a "word" verbatim, then b: its first field
\* does not open with a quote.  It is "a "word","b", which opens with a quote,
\* that fails with the unescaped-quote error at line 1 when Lazy is disabled,
\* before any field, and succeeds when Lazy is enabled.
C11_BareQuoteSucceeds ==
    /\ (input = BareQuote /\ quoted) =>
         /\ scanErr = ""
         /\ IsPrefix(out, BareQuoteOut)
         /\ pc = "stopped" => out = BareQuoteOut
    /\ (input = ExtraneousQuote /\ quoted /\ pc = "stopped") =>
         IF Lazy
         THEN scanErr = "" /\ Len(out) = 2
         ELSE scanErr = "unescaped quote character" /\ errLine = 1 /\ out = <<>>

\* a "word","b" has been read to its end by a strict, quoting Reader
C11_Witness ==
    input = BareQuote /\ quoted /\ ~Lazy /\ Stopped(TRUE) /\ out = BareQuoteOut

BareDoubleQuotesOut ==
    << <<<<ByteA, QUOTE, QUOTE, 98>>, FALSE, FALSE>>, <<<<99>>, TRUE, FALSE>> >>

TrimQuoteOut ==
    << <<<<QUOTE, ByteA, QUOTE>>, FALSE, FALSE>>, <<<<SPACE, 98>>, FALSE, FALSE>>,
       <<<<99>>, TRUE, FALSE>> >>

\* C12: a quote is ordinary content, and causes no error, when quoting is
\* disabled or the field does not open with a quote: such a ScanField call
\* returns no error and the field it returns holds every quote it consumed, and
\* a Reader with quoting disabled never fails.  With quoting enabled and Lazy
\* disabled a "word","b" yields a "word" and b; a""b,c yields a""b and c; and
\* with Trim the field  "a" after a space yields "a", quotes retained.
C12_BareQuotesAreContent ==
    /\ UnquotedCall =>
         /\ call.err = ""
         /\ call.token # Nil =>
              Count(call.token, QUOTE) = Count(Slice(call.data, 0, call.advance), QUOTE)
    /\ ~quoted => scanErr = ""
    /\ (quoted /\ ~Lazy /\ pc = "stopped") =>
         /\ input = BareQuote => scanErr = "" /\ out = BareQuoteOut
         /\ input = BareDoubleQuotes => scanErr = "" /\ out = BareDoubleQuotesOut
         /\ (input = TrimQuote /\ Trim) => scanErr = "" /\ out = TrimQuoteOut

\*  "a"," b",c has been read to its end by a strict, quoting, trimming Reader
C12_Witness ==
    input = TrimQuote /\ quoted /\ ~Lazy /\ Trim /\ Stopped(TRUE) /\ out = TrimQuoteOut

-----------------------------------------------------------------------------
(* The end of the input inside a quoted field; line numbers *)

\* C13: when the input ends while a quoted field is still open (no lone quote
\* has been seen since the opening one), ScanField fails with the
\* non-terminated error and returns no field; a quoted field is accepted at the
\* end of the input only when its last byte is a lone quote, the closing one,
\* and then EndOfRecord() is true.
C13_OpenQuoteAtEOF ==
    (QuotedCall /\ call.atEOF) =>
        /\ LoneQuotes(call.data, 1) = {} =>
             call.err = "non-terminated quoted field" /\ call.token = Nil
        /\ (call.token # Nil /\ call.advance = Len(call.data)
              /\ At(call.data, Len(call.data) - 1) = QUOTE) =>
             (Len(call.data) - 1) \in LoneQuotes(call.data, 1) /\ eor

\* LineNumber() before the Scan that delivered the last field
LineBefore == IF Len(lines) > 1 THEN lines[Len(lines) - 1] ELSE 1

\* C14: when a well-formed quoted field is delivered, LineNumber() has grown,
\* since the field before it was delivered, by the number of \n bytes consumed
\* for the field, however the source delivered the bytes.
C14_QuotedFieldLines ==
    (WellFormedQuoted /\ call.token # Nil) =>
        lineno - LineBefore = Count(Slice(call.data, 0, call.advance), LF)

\* the input has been consumed completely, without error
ConsumedAll == Stopped(TRUE) /\ start = Len(input)

\* C15: every \n consumed increments the line counter by one, whether it ends an
\* unquoted field, lies in or right after a quoted field, or ends a comment
\* line: once an input has been consumed completely without error,
\* LineNumber() is 1 plus the number of \n bytes of the input.
C15_LineNumberCountsNewlines ==
    ConsumedAll => lineno = 1 + Count(input, LF)

-----------------------------------------------------------------------------
(* Guessing the separator *)

\* the candidates that occur in data, and no less often than any other
MostFrequent(data) ==
    {c \in Candidates : Count(data, c) > 0
                        /\ \A d \in Candidates : Count(data, d) <= Count(data, c)}

GuessOut ==
    << <<<<ByteA, COMMA, 98>>, FALSE, FALSE>>,
       <<<<99, TAB, 100, COLON, 101, PIPE, 102>>, FALSE, FALSE>>,
       <<<<103>>, TRUE, FALSE>> >>

\* C16: with guessing enabled, the first ScanField call sets the separator to
\* the candidate among , ; tab | : that occurs most often in the data it is
\* given (the first chunk), when there is one such candidate; Sep() reports it
\* and no later call changes it, so every field is split on it.  The input
\* a,b;c\td:e|f;g read with ';' selected yields a,b then c\td:e|f then g.
C16_GuessMostFrequent ==
    [][/\ (guess /\ ~guess') =>
            \A c \in Candidates : MostFrequent(call'.data) = {c} => sep' = c
       /\ ~guess => (sep' = sep /\ ~guess')
       /\ (input' = GuessInput /\ sep' = SEMI) =>
            /\ scanErr' = ""
            /\ IsPrefix(out', GuessOut)
            /\ pc' = "stopped" => out' = GuessOut]_vars

\* the example has been read to its end with ';' guessed
C16_Witness ==
    input = GuessInput /\ ~guess /\ sep = SEMI /\ Stopped(TRUE) /\ out = GuessOut

\* C17: with guessing enabled, when two or more candidates share the highest
\* count in the first chunk, the Reader keeps the separator it was constructed
\* with.
C17_TieKeepsSeparator ==
    [][(guess /\ ~guess' /\ Cardinality(MostFrequent(call'.data)) > 1) =>
            sep' = sep]_vars

-----------------------------------------------------------------------------
(* Comment lines *)

\* the last ScanField call was made at the start of a record, on data whose
\* first byte is the comment marker
CommentCall ==
    /\ call.made /\ Comment # 0 /\ call.pre.eor
    /\ call.data # <<>> /\ At(call.data, 0) = Comment
    /\ ~(quoted /\ Comment = QUOTE)

\* the newlines of data
Newlines(data) == {i \in 0..(Len(data) - 1) : At(data, i) = LF}

LineCommentOut ==
    << <<<<ByteA>>, FALSE, FALSE>>, <<<<HASH>>, TRUE, FALSE>>, <<<<98>>, TRUE, FALSE>> >>

CommentTestOut ==
    << <<<<ByteA>>, FALSE, FALSE>>, <<<<98>>, FALSE, FALSE>>, <<<<HASH>>, TRUE, FALSE>>,
       <<<<99>>, TRUE, FALSE>> >>

\* a comment line is consumed through its newline, or through the end of the
\* input, and no field is returned for it
CommentDiscarded ==
    CommentCall =>
        /\ call.token = Nil /\ call.err = ""
        /\ call.advance = IF Newlines(call.data) # {}
                          THEN 1 + CHOOSE i \in Newlines(call.data) :
                                      \A j \in Newlines(call.data) : i <= j
                          ELSE IF call.atEOF THEN Len(call.data) ELSE 0

\* C18: with a comment marker configured, a line that begins at the start of a
\* record with the marker is discarded through its newline (or through the end
\* of the input) and none of its bytes is delivered as a field, while the lines
\* around it are read: a,#\n# comment\nb yields the records [a, #] and [b] (the
\* marker after a separator is content), and the input of the test Comment
\* yields [a, b, #] and [c].
C18_CommentLines ==
    /\ CommentDiscarded
    /\ (Comment = HASH /\ pc = "stopped") =>
         /\ input \in {LineCommentShort, LineComment} => out = LineCommentOut
         /\ input = CommentTest => out = CommentTestOut

-----------------------------------------------------------------------------
(* Empty lines *)

\* C19: after a Scan, EmptyLine() is true exactly when the field just produced
\* is the first scanned on its line and is both zero-length and
\* record-terminating, or when the line was recognized as a comment; whatever
\* Trim and quoting are and whether lines end in \n or \r\n.
C19_EmptyLine ==
    /\ (call.made /\ call.token # Nil) =>
         (EmptyLine(Self) <=> (call.pre.eor /\ call.token = <<>> /\ eor))
    /\ (CommentCall /\ call.token = Nil) => EmptyLine(Self)

-----------------------------------------------------------------------------
(* Trim *)

\* the bytes of the unquoted field of the last call, before any trimming
RawUnquoted ==
    IF Terminators(call.data) = {} THEN call.data
    ELSE LET i == FirstTerminator(call.data)
         IN  IF At(call.data, i) = LF /\ i > 0 /\ At(call.data, i - 1) = CR
             THEN Slice(call.data, 0, i - 1)
             ELSE Slice(call.data, 0, i)

AllSpace(f) == \A i \in 1..Len(f) : IsSpace(f[i])

\* t is f without its leading and trailing white space
IsTrimOf(t, f) ==
    /\ t = <<>> \/ (~IsSpace(t[1]) /\ ~IsSpace(t[Len(t)]))
    /\ \E a \in 0..Len(f) :
         /\ a + Len(t) <= Len(f)
         /\ SubSeq(f, a + 1, a + Len(t)) = t
         /\ AllSpace(SubSeq(f, 1, a))
         /\ AllSpace(SubSeq(f, a + Len(t) + 1, Len(f)))

TrimSpaceQuotedOut ==
    << <<<<ByteA>>, FALSE, FALSE>>, <<<<98>>, FALSE, FALSE>>,
       <<<<SPACE, 99, SPACE>>, FALSE, FALSE>>, <<<<100>>, TRUE, FALSE>> >>

\* C20: with Trim enabled, every unquoted field is delivered without its leading
\* and trailing white space, and a quoted field is delivered with the bytes
\* between its quotes as they are (doubled quotes collapsed), white space
\* included:  a,b ," c ", d  yields a, b,  c  with its spaces, and d.
C20_TrimUnquotedOnly ==
    Trim =>
        /\ (UnquotedCall /\ call.token # Nil) => IsTrimOf(call.token, RawUnquoted)
        /\ (WellFormedQuoted /\ call.token # Nil) =>
             call.token = Collapse(Slice(call.data, 1, FirstClosing(call.data, call.atEOF)))
        /\ (input = TrimSpaceQuoted /\ quoted) =>
             /\ scanErr = ""
             /\ IsPrefix(out, TrimSpaceQuotedOut)
             /\ pc = "stopped" => out = TrimSpaceQuotedOut

\* the example has been read to its end by a trimming, quoting Reader
C20_Witness ==
    input = TrimSpaceQuoted /\ quoted /\ Trim /\ Stopped(TRUE) /\ out = TrimSpaceQuotedOut

-----------------------------------------------------------------------------
(* The end of the input *)

\* the bytes read and not consumed yet
Rest == Slice(input, start, end)

\* the source has reported the end of the stream and a Scan is about to call
\* ScanField on what is left
AtEndOfInput == pc = "top" /\ srcEOF

\* nothing is left or, with Trim, only white space that is neither a newline nor
\* the separator
Blank(f) == f = <<>> \/ (Trim /\ AllSpace(f) /\ \A i \in 1..Len(f) : f[i] \notin {LF, sep})

\* C21: at the end of the input, if the last byte consumed was a separator
\* (EndOfRecord() is false), Scan returns true once more and delivers a
\* zero-length field with EndOfRecord() true and EmptyLine() false, also when
\* Trim is set and only white space follows the separator, and the Scan after
\* it returns false; if the last byte consumed ended a record, or the input is
\* empty, Scan returns false with no error and no field.
C21_FinalEmptyField ==
    [][AtEndOfInput =>
         /\ (~eor /\ Blank(Rest)) =>
              /\ out' = Append(out, <<<<>>, TRUE, FALSE>>)
              /\ ret' = "true" /\ scanErr' = ""
              /\ start' = Len(input) /\ eor'
         /\ (eor /\ Rest = <<>>) =>
              /\ out' = out
              /\ pc' = "stopped" /\ ret' = "false" /\ scanErr' = ""]_vars

\* a, and a space have been read to the end with Trim set: a, then the
\* zero-length field, and Scan has returned false
C21_Witness ==
    /\ input = <<ByteA, COMMA, SPACE>> /\ Trim /\ Stopped(TRUE)
    /\ out = << <<<<ByteA>>, FALSE, FALSE>>, <<<<>>, TRUE, FALSE>> >>

-----------------------------------------------------------------------------
(* The line number and the separator over the Reader's lifetime *)

\* C26: LineNumber() is 1 until the first ScanField call, and no step makes it
\* smaller: not a Scan that delivers a field, nor one that fails, nor a
\* ScanField call that only asks for more data.
C26_LineNumberMonotonic ==
    /\ [](~call.made => lineno = 1)
    /\ [][lineno' >= lineno]_vars

\* a Scan has failed on a line after the first, after a ScanField call that had
\* asked for more data
C26_Witness == scanErr # "" /\ lineno > 1 /\ call.pre.lineno > 1 /\ out = <<>>

\* C27: the separator is guessed at most once, by the first ScanField call that
\* gets past the end-of-input guard (the first call made on data): that call
\* clears the guess flag, and once the flag is clear it stays clear and Sep()
\* never changes; when the data of that call holds none of the five
\* candidates, Sep() stays the configured separator.
C27_GuessOnce ==
    [][/\ ~guess => (~guess' /\ sep' = sep)
       /\ (guess /\ pc = "top" /\ end > start) => ~guess'
       /\ (guess /\ guess') => sep' = sep
       /\ (guess /\ ~guess' /\ \A c \in Candidates : Count(call'.data, c) = 0) =>
            sep' = sep]_vars

\* ;,, has been read to its end with ';' guessed from a first chunk that held
\* the semicolon alone: the commas read later did not change the separator
C27_Witness ==
    /\ input = <<SEMI, COMMA, COMMA>> /\ sep = SEMI /\ ~guess /\ Stopped(TRUE)
    /\ out = << <<<<>>, FALSE, FALSE>>, <<<<COMMA, COMMA>>, TRUE, FALSE>> >>

-----------------------------------------------------------------------------
(* \r\n after a doubled quote *)

EscapedQuoteAndEmbeddedNewLineOut ==
    << <<<<ByteA, QUOTE, 98>>, FALSE, FALSE>>,
       <<<<99, QUOTE, CR, LF, 100>>, TRUE, FALSE>> >>

\* the quoted field of the last call was returned and its last two bytes
\* consumed are \r\n
EndedByCRLF ==
    /\ QuotedCall /\ call.token # Nil /\ call.advance >= 3
    /\ At(call.data, call.advance - 1) = LF
    /\ At(call.data, call.advance - 2) = CR

\* C28: a \r\n closes a quoted field only when the byte before the \r is a lone
\* quote: after the second quote of a doubled pair it is content, so
\* "a""b","c""\r\nd" yields exactly a"b and c"\r\nd.
C28_CRLFAfterEscapedQuote ==
    /\ EndedByCRLF =>
         /\ At(call.data, call.advance - 3) = QUOTE
         /\ (call.advance - 3) \in LoneQuotes(call.data, 1)
    /\ (input = EscapedQuoteAndEmbeddedNewLine /\ quoted) =>
         /\ scanErr = ""
         /\ IsPrefix(out, EscapedQuoteAndEmbeddedNewLineOut)
         /\ pc = "stopped" => out = EscapedQuoteAndEmbeddedNewLineOut

\* the example has been read to its end
C28_Witness ==
    /\ input = EscapedQuoteAndEmbeddedNewLine /\ quoted /\ Stopped(TRUE)
    /\ out = EscapedQuoteAndEmbeddedNewLineOut

-----------------------------------------------------------------------------
(* The line numbers of the errors *)

\* the line on which the byte at offset k of the input lies
LineOf(k) == 1 + Count(Slice(input, 0, k), LF)

\* C29: the line number carried by the non-terminated error is the line of the
\* field's opening quote, 1 plus the number of \n bytes before it, whatever the
\* number of newlines in the field and however the source delivered its bytes.
C29_NonTerminatedLine ==
    scanErr = "non-terminated quoted field" => errLine = LineOf(start)

\* the lone quotes of the last call's data that are followed by a byte other
\* than the separator, \n and \r
Offending ==
    {k \in LoneQuotes(call.data, 1) :
        k + 1 < Len(call.data) /\ At(call.data, k + 1) \notin {sep, LF, CR}}

\* C30: the line number carried by the unescaped-quote error, and LineNumber()
\* after it, is the line of the offending lone quote: 1 plus the number of \n
\* bytes before it in the input.
C30_UnescapedQuoteLine ==
    scanErr = "unescaped quote character" =>
        /\ Offending # {}
        /\ LET k == CHOOSE i \in Offending : \A j \in Offending : i <= j
           IN  errLine = LineOf(start + k) /\ lineno = errLine

-----------------------------------------------------------------------------
(* ScanRecord *)

\* the bytes of t before its first \n (all of t when it has none)
FirstLine(t) ==
    IF IndexByte(t, LF) >= 0 THEN Slice(t, 0, IndexByte(t, LF)) ELSE t

\* the bytes of t after its first \n
AfterFirstLine(t) ==
    IF IndexByte(t, LF) >= 0 THEN Slice(t, IndexByte(t, LF) + 1, Len(t)) ELSE <<>>

RECURSIVE NextFields(_)
\* the number of fields of the first record of the unquoted bytes t, the first
\* line that is neither empty nor a comment: its separators plus one (0 when
\* there is no such line)
NextFields(t) ==
    IF t = <<>> THEN 0
    ELSE IF FirstLine(t) = <<>> \/ (Comment # 0 /\ FirstLine(t)[1] = Comment)
    THEN NextFields(AfterFirstLine(t))
    ELSE Count(FirstLine(t), sep) + 1

\* C25: a ScanRecord call with n >= 1 destinations, made at the start of a
\* record, skips the empty and comment lines and then returns (n, nil) exactly
\* when the next record has exactly n fields; when that record has fewer or more
\* fields it returns the 'unexpected number of fields' error with a count
\* smaller than n.
C25_ScanRecord ==
    (rec.at = "done" /\ rec.eor0) =>
        LET k == NextFields(Slice(input, rec.start0, Len(input)))
        IN  /\ (rec.count = rec.n /\ rec.err = "") <=> k = rec.n
            /\ (k # 0 /\ k # rec.n) =>
                 /\ rec.err = "unexpected number of fields"
                 /\ rec.count < rec.n

-----------------------------------------------------------------------------
(* LineReader *)

\* the bytes of the source that no ReadLine call had returned when the current
\* call began
Unread == Slice(rd.bytes, rl.base, Len(rd.bytes))

\* a ReadLine call is running on an unterminated line longer than max, over a
\* source that does not fail
Oversize ==
    /\ rl.at = "loop" /\ ~rd.fails
    /\ Len(Unread) > lr.max /\ Count(Unread, LF) = 0

\* C22: the buffer is never larger than max and a call makes no more reads
\* than max allows, and a ReadLine call on an unterminated line longer than max
\* returns ErrBufferFull.
C22_BufferBounded ==
    /\ [](Len(lr.buf) <= lr.max /\ rl.reads <= lr.max + 1)
    /\ Oversize ~> (rl.at = "ret" /\ rl.err = ErrBufferFull)

C22_Witness ==
    /\ rl.at = "ret" /\ rl.err = ErrBufferFull /\ rl.reads >= 2
    /\ rd.bytes = LongLine(lr.max + 1) /\ lr.max > Headroom
    /\ Len(lr.buf) = lr.max /\ lr.w = lr.max

\* C23: after every ReadLine call of a LineReader constructed with
\* 0 < size <= max, 0 <= r <= w <= len(buf) <= max.
C23_Cursors ==
    rl.at \in {"idle", "ret"} =>
        /\ 0 <= lr.r /\ lr.r <= lr.w
        /\ lr.w <= Len(lr.buf) /\ Len(lr.buf) <= lr.max

C23_Witness ==
    /\ rl.at = "ret" /\ rl.err = "" /\ ~rl.sawEOF /\ rl.reads > 0
    /\ 0 < lr.r /\ lr.r = lr.w /\ lr.w = Len(lr.buf) /\ Len(lr.buf) < lr.max
    /\ Len(lr.buf) > Len(rd.bytes) - rd.pos

\* C24: the call that meets the end of the stream after bytes not followed by
\* a newline returns exactly those bytes, the unread ones, with a nil error; the
\* call after it returns io.EOF and no bytes; and when the stream ends with a
\* newline the call that meets its end returns io.EOF.
C24_FinalLine ==
    /\ (rl.at = "ret" /\ rl.sawEOF /\ rl.err = "") =>
          /\ rl.line = Unread
          /\ rl.line # <<>>
          /\ Count(rl.line, LF) = 0
    /\ (rl.at = "ret" /\ rl.afterFinal /\ ~rd.fails) =>
          (rl.err = EOF /\ rl.line = <<>>)
    /\ (rl.at = "ret" /\ rl.sawEOF /\ rd.bytes # <<>>
          /\ rd.bytes[Len(rd.bytes)] = LF) =>
          (rl.err = EOF /\ rl.line = <<>>)

\* the number of bytes of the source that ReadLine calls have consumed
Consumed == rd.pos - (lr.w - lr.r)

\* C35: as long as no call has returned ErrBufferFull, a call that returns
\* without error returns the unread bytes up to the first \n, without that \n
\* and without a \r before it, and consumes them and the \n; when no \n is
\* left it returns all the unread bytes; and no returned line holds a \n.
C35_LinesAreTheInput ==
    (rl.at = "ret" /\ rl.err = "" /\ ~rl.overflowed) =>
        \E i \in {IndexByte(Unread, LF)} :
           /\ Count(rl.line, LF) = 0
           /\ i >= 0 => /\ rl.line = dropCR(Slice(Unread, 0, i))
                        /\ Consumed = rl.base + i + 1
           /\ i < 0 => /\ rl.line = Unread
                       /\ Consumed = Len(rd.bytes)

\* the length of the line at the beginning of the unread bytes, its \n included
PendingLen ==
    IF IndexByte(Unread, LF) >= 0 THEN IndexByte(Unread, LF) + 1 ELSE Len(Unread)

\* C36: the first call that returns ErrBufferFull does so on a line that is
\* longer, with its terminator, than max.
C36_FullOnlyWhenTooLong ==
    (rl.at = "ret" /\ rl.err = ErrBufferFull /\ ~rl.overflowed) => PendingLen > lr.max

\* the bytes of the buffer that no call has returned: buf[r:w]
Buffered(lb) == Slice(lb.buf, lb.r, lb.w)

\* the running ReadLine call has found no newline and goes on to make room
MakesRoom == rl.at = "loop" /\ IndexByte(Slice(lr.buf, rl.p, lr.w), LF) < 0

\* C34: when ReadLine makes room, the slide leaves the unread bytes at
\* buf[0:w] with r = 0 and the length of the buffer unchanged; the growth that
\* follows it doubles the length and leaves buf[0:w], r and w as they are; and
\* the whole step leaves the unread bytes at the beginning of the buffer, in a
\* buffer of the same or of twice the length, with r = 0 when the call goes on.
C34_SlideAndGrow ==
    /\ [](MakesRoom =>
            \E b1 \in {slide(lr)} : \E b2 \in {grow(b1)} :
               /\ b1.r = 0 /\ Len(b1.buf) = Len(lr.buf)
               /\ Buffered(b1) = Buffered(lr)
               /\ b2.r = 0 /\ b2.w = b1.w /\ Len(b2.buf) = 2 * Len(b1.buf)
               /\ Buffered(b2) = Buffered(lr))
    /\ [][MakesRoom =>
            /\ Slice(lr'.buf, 0, lr.w - lr.r) = Buffered(lr)
            /\ Len(lr'.buf) \in {Len(lr.buf), 2 * Len(lr.buf)}
            /\ lr'.w - (lr.w - lr.r) = rd'.pos - rd.pos
            /\ rl'.at = "loop" => (lr'.r = 0 /\ Buffered(lr') = Slice(rd.bytes, rl.base, rd'.pos))]_vars

\* the second call on \n a a began with one unread byte at buf[1], slid it to
\* buf[0], doubled the buffer from 4 to 8 bytes and read the last byte
C34_Witness ==
    /\ rd.bytes = <<LF, ByteA, ByteA>> /\ lr.max = 8 /\ Len(lr.buf) = 8
    /\ rl.at = "loop" /\ rl.reads = 1 /\ rl.p = 1 /\ rl.base = 1
    /\ lr.r = 0 /\ lr.w = 2 /\ Buffered(lr) = <<ByteA, ByteA>>

-----------------------------------------------------------------------------
(* trim *)

\* the slices of the input that begin where the next field begins
Pieces == {Slice(input, start, j) : j \in start..Len(input)}

\* t is a sub-slice of f
IsSliceOf(t, f) == \E i \in 0..Len(f) : \E j \in i..Len(f) : t = Slice(f, i, j)

\* C39: trim(trim(f)) = trim(f) for every byte sequence f; trim(f) = f when f
\* has no leading or trailing white space; the result is a sub-slice of f,
\* possibly of length zero, and never the absent value; and the unquoted fields
\* a trimming Reader delivers are left unchanged by trim.
C39_TrimIdempotent ==
    /\ \A f \in Pieces :
         /\ trim(trim(f)) = trim(f)
         /\ (f = <<>> \/ (~IsSpace(f[1]) /\ ~IsSpace(f[Len(f)]))) => trim(f) = f
         /\ trim(f) # Nil
         /\ IsSliceOf(trim(f), f)
    /\ (Trim /\ UnquotedCall /\ call.token # Nil) =>
         (trim(call.token) = call.token /\ IsSliceOf(call.token, call.data))

\* a trimming Reader has delivered a zero-length field made of white space only
C39_Witness ==
    /\ Trim /\ UnquotedCall /\ call.token = <<>>
    /\ RawUnquoted # <<>> /\ AllSpace(RawUnquoted)
    /\ trim(RawUnquoted) = <<>> /\ trim(trim(RawUnquoted)) = <<>>

-----------------------------------------------------------------------------
(* The reads of the source *)

\* the Reader as NewReader and the caller's settings left it
Fresh == [Self EXCEPT !.sep = COMMA, !.eor = TRUE, !.lineno = 1, !.empty = FALSE]

RECURSIVE WholeScan(_, _, _)
\* What Scan delivers, and the error it ends with, when the source hands over
\* the whole input together with the end of the stream: ScanField is applied
\* to what is left of the input (at) until it returns an error or no token.
WholeScan(s, at, acc) ==
    LET r == ScanField(Slice(input, at, Len(input)), TRUE, s, 0)
    IN  IF r.err # "" THEN [out |-> acc, err |-> r.err]
        ELSE IF r.token = Nil THEN [out |-> acc, err |-> ""]
        ELSE WholeScan(r.s, at + r.advance,
                       Append(acc, <<r.token, r.s.eor, EmptyLine(r.s)>>))

\* C31: with guessing disabled, the fields delivered (bytes, EndOfRecord,
\* EmptyLine) and the kind of the terminal error are those of the scan of the
\* whole input in one chunk, however the source splits the stream into reads;
\* and a call on a window that holds no complete field consumes nothing.
C31_ReadsDoNotMatter ==
    ~guess =>
        \E w \in {WholeScan(Fresh, 0, <<>>)} :
            /\ IsPrefix(out, w.out)
            /\ pc = "stopped" => (out = w.out /\ scanErr = w.err)
            /\ (call.made /\ call.token = Nil /\ call.err = "" /\ ~call.atEOF
                  /\ ~(call.pre.eor /\ Comment # 0 /\ call.data # <<>>
                         /\ At(call.data, 0) = Comment))
                 => call.advance = 0

-----------------------------------------------------------------------------
(* Carriage returns in the Writer *)

\* C33: with quoting enabled and no error, a field that holds a carriage return
\* is emitted between quotes (after the separator when it is not the first of
\* its record) whether UseCRLF is set or not; EndOfRecord emits \r\n with UseCRLF
\* and \n without; abc\rdef written as a record is "abc\rdef" and that
\* terminator.
C33_CarriageReturnQuoted ==
    (wquoted /\ werr = "") =>
        /\ (wcall.op = "Write" /\ CR \in Bytes(wcall.field)) =>
              Emitted = (IF wcall.sor0 THEN <<>> ELSE <<wsep>>)
                           \o <<QUOTE>> \o Doubled(wcall.field) \o <<QUOTE>>
        /\ wcall.op = "EndOfRecord" =>
              Emitted = (IF UseCRLF THEN <<CR, LF>> ELSE <<LF>>)
        /\ hist = << <<"W", AbcCrDef>>, <<"E">> >> =>
              Stream = <<QUOTE>> \o AbcCrDef \o <<QUOTE>>
                          \o (IF UseCRLF THEN <<CR, LF>> ELSE <<LF>>)

\* abc\rdef has been written as a record without UseCRLF and has reached the sink
C33_Witness ==
    /\ wquoted /\ ~UseCRLF /\ werr = "" /\ wcall.op = "Flush"
    /\ hist = << <<"W", AbcCrDef>>, <<"E">> >>
    /\ sink = <<QUOTE>> \o AbcCrDef \o <<QUOTE, LF>>

-----------------------------------------------------------------------------
(* Errors consume nothing *)

\* C32: a ScanField call that returns an error returns advance 0 and no
\* token; the Scanner stops where the malformed field begins, and the step that
\* raises the error consumes no byte and delivers no field.
C32_ErrorConsumesNothing ==
    /\ [](call.err # "" =>
            /\ call.err \in {"unescaped quote character", "non-terminated quoted field"}
            /\ call.advance = 0 /\ call.token = Nil
            /\ scanErr = call.err /\ pc = "stopped"
            /\ IsPrefix(call.data, Slice(input, start, Len(input))))
    /\ [][(scanErr = "" /\ scanErr' # "") => (start' = start /\ out' = out)]_vars

\* both errors: a quoted field with a stray quote after a first field has been
\* delivered
C32_Witness ==
    /\ call.err = "unescaped quote character" /\ out # <<>> /\ start > 0
    /\ call.advance = 0 /\ call.token = Nil

-----------------------------------------------------------------------------
(* ScanRecord and the end of the record *)

\* the Scanner stands at the start of a line of the (unquoted) input, or at its end
AtLineStart == start = 0 \/ start = Len(input) \/ At(input, start - 1) = LF

\* C37: whenever ScanRecord returns, with a nil error or with the field-count
\* error, EndOfRecord() is true and the Scanner stands at the start of the
\* following record.
C37_WholeRecords ==
    (rec.at = "done" /\ rec.err \in {"", "unexpected number of fields"}) =>
        (eor /\ AtLineStart)

-----------------------------------------------------------------------------
(* Kept byte slices *)

\* C38: the bytes ScanRecord stored into a *[]byte destination are never
\* changed by a later Scan (the destination has an array of its own); the slice
\* Value stored is a slice of the Scanner's buffer and holds the field's bytes
\* as long as no Scan has run since.
C38_CopyIsIndependent ==
    kept.has =>
        /\ kept.copy.own /\ Content(kept.copy) = kept.orig
        /\ ~kept.alias.own
        /\ ~kept.stale => Content(kept.alias) = kept.orig

\* later Scans have overwritten the bytes under the slice Value stored, and the
\* copy still holds the field
C38_Witness ==
    /\ kept.has /\ kept.stale /\ kept.orig # <<>>
    /\ Content(kept.alias) # kept.orig
    /\ Content(kept.copy) = kept.orig

=============================================================================
